---- MODULE Spec2Model ----
(***************************************************************************)
(* kojo session manager: Session fan-out (Subscribe / broadcast /          *)
(* scrollback ring) and Manager lifecycle (NewManager, Create, Restart,    *)
(* Stop, wait loops, completeExit), modelled from internal/session.        *)
(***************************************************************************)
EXTENDS Integers, Sequences, FiniteSets, TLC

\* ------------------------------------------------------------------ bounds
\* scaled-down defaultRingSize (ring.go: 1024 * 1024)
RingSize == 2
\* scaled-down subscriber channel capacity (session.go: make(chan []byte, 1024))
SubCap == 2
\* largest chunk one reader.Read returns (manager.go: buf of 32*1024)
MaxChunk == 2
\* number of output bytes the child produces in a run
MaxBytes == 4

\* number of bytes written into a ring buffer on its own
MaxRingBytes == 6

\* scaled-down yoloTailSize (session.go: 4096)
yoloTailSize == 3
\* scaled-down gap the approval pattern allows between question and option
\* (session.go: [\s\S]{0,200}?)
YoloGap == 1
\* largest chunk passed to one CheckYolo call, and bytes passed in a run
MaxYoloChunk == 2
MaxYoloBytes == 6

\* restarts allowed per session (each Restart opens a new epoch / done channel)
MaxEpochs == 2
\* scaled-down maxConsecutiveErrors of tmuxWaitLoop (manager.go: 10)
maxConsecutiveErrors == 2

\* subscriber channels that may be created by Subscribe
Chans == {"ch1", "ch2"}

\* ids generateID can return, and the callers of the Manager's operations
SessIds == {"s_1", "s_2"}
Creators == {"c1", "c2"}
Restarters == {"r1", "r2"}
ExitCodes == {3}
ByteVals == {1, 2}
ToolChoices == {"claude", "tmux", "bash"}
ArgChoices == {<<>>, <<"--session-id", "u1">>}

StatusRunning == "running"
StatusExited == "exited"

Range(f) == {f[i] : i \in DOMAIN f}

VARIABLES
  \* ---- Session fan-out state (one Session record under observation)
  scrollback,    \* RingBuffer: [buf, size, w, full]
  subscribers,   \* s.subscribers: set of registered channels
  chq,           \* buffered content of each subscriber channel
  chState,       \* position of the client owning each channel
  subMu,         \* holder of s.subMu ("free" or the holder)
  rlpc,          \* readLoop position
  rldata,        \* readLoop's current chunk (data)
  written,       \* history: every byte readLoop wrote to scrollback, in order
  snap,          \* history: scrollback snapshot returned by Subscribe per channel
  subAt,         \* history: Len(written) when the snapshot was taken
  sent,          \* history: bytes sent on each channel
  dropped,       \* history: bytes dropped for a channel because it was full
  afterUnsub,    \* history: bytes broadcast after the channel was unsubscribed
  \* ---- Manager state
  sessions,      \* m.sessions: id -> Session record
  shuttingDown,  \* m.shuttingDown
  file,          \* content of sessions.json as last written by Store.Save
  \* ---- environment
  tmux,          \* tmux server: session name -> [st, code, cmd]
  fifos,         \* FIFO files <tmp>/kojo/<name>.pipe on disk
  idPool,        \* ids generateID has not handed out yet
  \* ---- goroutines and callers
  wl,            \* wait loops: id -> epoch -> [kind, pc, code, errs, hasRawPipe, spawned]
  cr,            \* callers of Create
  rc,            \* callers of Restart
  st,            \* caller of Stop
  sa,            \* caller of StopAll
  \* ---- history
  doneCloses,    \* id -> done channel -> epochs whose exit closed it, in order
  panicked,      \* a close of a closed channel happened (Go panics)
  launched,      \* id -> arguments the current process was started with
  nm,            \* NewManager: [pc, loadOK, cleaned, killed, removed, probed]
  \* ---- yolo auto-approve state of the Session under observation
  yoloMode,      \* s.YoloMode
  yoloTail,      \* s.yoloTail
  yc,            \* readLoop's CheckYolo call: [pc, on, data, tail, approval, prev, fed]
  ytimers,       \* time.AfterFunc timers started by readLoop: [st, wrote]
  ysince,        \* history: bytes appended to yoloTail since it was last cleared
  yrun,          \* history: bytes passed to CheckYolo, yoloMode on, since the last match
  \* ---- Session.Write on the Session under observation
  wPTY,          \* s.PTY: 0 is nil, otherwise the handle of the PTY
  wClosed,       \* handles of the PTYs that were closed
  wDone,         \* the channel s.done is closed
  wr,            \* the caller of Write: [pc, i, pty, res, calls]
  wlog,          \* history: <<handle, data>> of every byte string a PTY accepted
  \* ---- Session.Resize on the Session under observation
  rzName,        \* s.TmuxSessionName ("" for a direct session)
  lastSize,      \* <<s.lastCols, s.lastRows>>
  rz,            \* callers of Resize: [pc, ptmx, prev, dims, sizeOK, mux, res]
  rzSized,       \* history: sizes pty.Setsize has set
  rzSent,        \* history: [dims, ok] of every tmuxResizePane call
  rzCalls,       \* history: number of Resize calls so far
  \* ---- Store.Save and the files of the config directory
  disk,          \* file name -> content, or Absent
  storeMu,       \* holder of st.mu ("free" or the goroutine)
  sv,            \* goroutines calling Store.Save: [pc, infos, data]
  stSaved,       \* history: the lists passed to Save so far
  stRuns,        \* history: number of Save calls and of crashes so far
  \* ---- the mutexes of the Manager and of its Session records
  mutex,         \* mutex -> the goroutine holding it, or "free"
  lg,            \* goroutines: the lock steps [f, a, x] their operation has left
  \* ---- history of completeExit
  exitLog,       \* id -> what the completeExit calls did, in order: [ev, e]
  \* ---- a call of buildRestartArgs
  ba,            \* [pc, given, sid, orig, args, shared, i, skipNext, out]
  \* ---- a broadcast taken one send at a time
  bpend,         \* the subscribers the range loop of broadcast has yet to visit
  \* ---- the session list Manager.save snapshots
  mlist          \* the ids in m.sessions, in the order they were inserted

subVars == <<scrollback, subscribers, chq, chState, subMu, rlpc, rldata,
             written, snap, subAt, sent, dropped, afterUnsub>>

lifeVars == <<sessions, shuttingDown, file, tmux, fifos, idPool, wl, cr, rc, st,
              sa, doneCloses, panicked, launched, nm>>

yoloVars == <<yoloMode, yoloTail, yc, ytimers, ysince, yrun>>

writeVars == <<wPTY, wClosed, wDone, wr, wlog>>

resizeVars == <<rzName, lastSize, rz, rzSized, rzSent, rzCalls>>

storeVars == <<disk, storeMu, sv, stSaved, stRuns>>

lockVars == <<mutex, lg>>

noteVars == <<exitLog>>

\* the variables outside the Manager's own state, without the history of
\* completeExit
argVars == <<ba>>

sendVars == <<bpend>>

listVars == <<mlist>>

extRest == <<writeVars, resizeVars, storeVars, lockVars, argVars, sendVars, listVars>>

extVars == <<extRest, noteVars>>

\* what the actions of one part leave alone
writeRest == <<subVars, lifeVars, yoloVars, resizeVars, storeVars, lockVars, noteVars,
               argVars, sendVars,
               listVars>>
resizeRest == <<subVars, lifeVars, yoloVars, storeVars, lockVars, noteVars, argVars,
                sendVars,
               listVars>>
storeRest == <<subVars, lifeVars, yoloVars, writeVars, resizeVars, lockVars, noteVars,
               argVars, sendVars,
               listVars>>
lockRest == <<subVars, lifeVars, yoloVars, writeVars, resizeVars, storeVars, noteVars,
              argVars, sendVars,
               listVars>>
argRest == <<subVars, lifeVars, yoloVars, writeVars, resizeVars, storeVars, lockVars,
             noteVars, sendVars,
               listVars>>
sendRest == <<lifeVars, yoloVars, writeVars, resizeVars, storeVars, lockVars, noteVars,
              argVars,
               listVars>>

listRest == <<subVars, lifeVars, yoloVars, writeVars, resizeVars, lockVars, noteVars,
              argVars, sendVars>>

vars == <<subVars, lifeVars, yoloVars, extVars>>

\* ------------------------------------------------------------ RingBuffer
NewRingBuffer(size) ==
  [buf |-> [i \in 1..size |-> 0], size |-> size, w |-> 0, full |-> FALSE]

\* Write: for each byte b of p: buf[w] = b; w++; if w >= size { w = 0; full = true }
RECURSIVE RingBufferWrite(_, _)
RingBufferWrite(r, p) ==
  IF p = <<>> THEN r
  ELSE LET w1 == r.w + 1
           r1 == [r EXCEPT !.buf[r.w + 1] = Head(p),
                           !.w = IF w1 >= r.size THEN 0 ELSE w1,
                           !.full = IF w1 >= r.size THEN TRUE ELSE r.full]
       IN RingBufferWrite(r1, Tail(p))

\* a Bytes that returns a full buffer without rotating it
RingBufferBytesUnrotated(r) ==
  IF ~r.full THEN SubSeq(r.buf, 1, r.w) ELSE r.buf

\* Bytes: !full -> buf[:w]; full -> buf[w:] ++ buf[:w]
RingBufferBytes(r) ==
  IF ~r.full THEN SubSeq(r.buf, 1, r.w)
  ELSE SubSeq(r.buf, r.w + 1, r.size) \o SubSeq(r.buf, 1, r.w)

\* ------------------------------------------------------- Session fan-out
\* select { case ch <- data: default: } on a buffered channel of capacity SubCap
SendNBLossy(q, data) == IF Len(q) < SubCap - 1 THEN Append(q, data) ELSE q

SendNB(q, data) == IF Len(q) < SubCap THEN Append(q, data) ELSE q

\* Subscribe, first half: s.subMu.Lock(); s.subscribers[ch] = struct{}{}
SubscribeRegister(ch) ==
  /\ chState[ch] = "unused"
  /\ subMu = "free"
  /\ subMu' = ch
  /\ subscribers' = subscribers \cup {ch}
  /\ chState' = [chState EXCEPT ![ch] = "registering"]
  /\ UNCHANGED <<scrollback, chq, rlpc, rldata, written, snap, subAt, sent,
                 dropped, afterUnsub>>
  /\ UNCHANGED <<lifeVars, yoloVars, extVars>>

\* Subscribe, second half: scrollback := s.scrollback.Bytes(); s.subMu.Unlock(); return
SubscribeSnapshot(ch) ==
  /\ chState[ch] = "registering"
  /\ subMu = ch
  /\ snap' = [snap EXCEPT ![ch] = RingBufferBytes(scrollback)]
  /\ subAt' = [subAt EXCEPT ![ch] = Len(written)]
  /\ subMu' = "free"
  /\ chState' = [chState EXCEPT ![ch] = "subscribed"]
  /\ UNCHANGED <<scrollback, subscribers, chq, rlpc, rldata, written, sent,
                 dropped, afterUnsub>>
  /\ UNCHANGED <<lifeVars, yoloVars, extVars>>

\* an Unsubscribe that closes the channel before it removes it
closeBeforeDelete(state) == state = "subscribed"

\* Unsubscribe closes ch after delete(s.subscribers, ch) and the unlock
closeAfterDelete(state) == state = "removed"

\* Unsubscribe, first half: lock; delete(s.subscribers, ch); unlock
UnsubscribeDelete(ch) ==
  /\ chState[ch] = "subscribed"
  /\ subMu = "free"
  /\ subscribers' = subscribers \ {ch}
  /\ chState' = [chState EXCEPT ![ch] = "removed"]
  /\ UNCHANGED <<scrollback, chq, subMu, rlpc, rldata, written, snap, subAt,
                 sent, dropped, afterUnsub>>
  /\ UNCHANGED <<lifeVars, yoloVars, extVars>>

\* Unsubscribe, second half: close(ch)
UnsubscribeClose(ch) ==
  /\ closeAfterDelete(chState[ch])
  /\ chState' = [chState EXCEPT ![ch] = "closed"]
  /\ UNCHANGED <<scrollback, subscribers, chq, subMu, rlpc, rldata, written,
                 snap, subAt, sent, dropped, afterUnsub>>
  /\ UNCHANGED <<lifeVars, yoloVars, extVars>>

\* the client's writer goroutine receives one chunk from its channel
Receive(ch) ==
  /\ chState[ch] \in {"subscribed", "removed", "closed"}
  /\ chq[ch] # <<>>
  /\ chq' = [chq EXCEPT ![ch] = Tail(chq[ch])]
  /\ UNCHANGED <<scrollback, subscribers, chState, subMu, rlpc, rldata,
                 written, snap, subAt, sent, dropped, afterUnsub>>
  /\ UNCHANGED <<lifeVars, yoloVars, extVars>>

\* readLoop: n, err := reader.Read(buf); data := copy; s.scrollback.Write(data)
ReadLoopRead ==
  /\ rlpc = "read"
  /\ \E n \in 1..MaxChunk :
       /\ Len(written) + n <= MaxBytes
       /\ LET data == [i \in 1..n |-> Len(written) + i]
          IN /\ rldata' = data
             /\ scrollback' = RingBufferWrite(scrollback, data)
             /\ written' = written \o data
  /\ rlpc' = "broadcast"
  /\ UNCHANGED <<subscribers, chq, chState, subMu, snap, subAt, sent, dropped,
                 afterUnsub>>
  /\ UNCHANGED <<lifeVars, yoloVars, extVars>>

\* a broadcast that waits for room in every subscriber channel
broadcastBlocking(data) ==
  /\ subMu = "free"
  /\ \A ch \in subscribers : Len(chq[ch]) < SubCap
  /\ chq' = [ch \in Chans |->
               IF ch \in subscribers THEN Append(chq[ch], data) ELSE chq[ch]]

\* broadcast: lock subMu; for ch := range subscribers { non-blocking send }; unlock
broadcast(data) ==
  /\ subMu = "free"
  /\ chq' = [ch \in Chans |->
               IF ch \in subscribers THEN SendNB(chq[ch], data) ELSE chq[ch]]

\* readLoop: s.broadcast(data), then back to Read
ReadLoopBroadcast ==
  /\ rlpc = "broadcast"
  /\ broadcast(rldata)
  /\ sent' = [ch \in Chans |->
                IF ch \in subscribers /\ chq'[ch] # chq[ch]
                THEN sent[ch] \o rldata ELSE sent[ch]]
  /\ dropped' = [ch \in Chans |->
                   IF ch \in subscribers /\ Len(chq[ch]) >= SubCap
                   THEN dropped[ch] \cup Range(rldata) ELSE dropped[ch]]
  /\ afterUnsub' = [ch \in Chans |->
                      IF chState[ch] \in {"removed", "closed"}
                      THEN afterUnsub[ch] \cup Range(rldata) ELSE afterUnsub[ch]]
  /\ rlpc' = "read"
  /\ rldata' = <<>>
  /\ UNCHANGED <<scrollback, subscribers, chState, subMu, written, snap, subAt>>
  /\ UNCHANGED <<lifeVars, yoloVars, extVars>>

\* readLoop: Read returned an error (EOF): return, closing readDone
ReadLoopEOF ==
  /\ rlpc = "read"
  /\ rlpc' = "exited"
  /\ UNCHANGED <<scrollback, subscribers, chq, chState, subMu, rldata, written,
                 snap, subAt, sent, dropped, afterUnsub>>
  /\ UNCHANGED <<lifeVars, yoloVars, extVars>>

\* ------------------------------------------------------------ Manager
userTools == {"claude", "codex", "gemini"}
internalTools == {"tmux"}
isAllowedTool(name) == name \in userTools \cup internalTools

tmuxSessionName(id) == "kojo_" \o id
MuxNames == {tmuxSessionName(id) : id \in SessIds} \cup {"kojo_old"}

\* a tmux session of the user, not one of kojo's
UserMuxNames == {"main"}

\* tmuxListKojoSessions: strings.HasPrefix(line, tmuxPrefix)
hasKojoPrefix(name) == name \in MuxNames
\* a tmux session: st in none/alive/dead (dead = pane exited, kept by
\* remain-on-exit), the pane's exit status, remain-on-exit
NoMux == [st |-> "none", code |-> 0, remain |-> FALSE]

NoLoop == [kind |-> "none", pc |-> "none", code |-> 0, errs |-> 0,
           hasRawPipe |-> FALSE, spawned |-> {}]

\* tmuxKillSession(name) / "tmux kill-session -t name"
tmuxKillSession(T, name) ==
  IF name \in DOMAIN T THEN [T EXCEPT ![name] = NoMux] ELSE T

\* tmuxCleanupPipePane / Session.cleanupPipePane: stop pipe-pane, close fd, remove FIFO
RemoveFifo(F, name) == F \ {name}

\* completeExit: last maxLastOutput bytes of scrollback (scaled with the ring)
LastOutputOf(r) == RingBufferBytes(r)

\* Session.Info(): the persisted view of a record
Info(s) ==
  [ID |-> s.ID, Tool |-> s.Tool, WorkDir |-> s.WorkDir, Args |-> s.Args,
   Status |-> s.Status, ExitCode |-> s.ExitCode, YoloMode |-> s.YoloMode,
   Internal |-> s.Internal, ToolSessionID |-> s.ToolSessionID,
   ParentID |-> s.ParentID, TmuxSessionName |-> s.TmuxSessionName,
   LastOutput |-> IF s.lastOutput # <<>> /\ Len(s.lastOutput[1]) > 0
                  THEN s.lastOutput ELSE <<>>,
   LastCols |-> s.lastCols, LastRows |-> s.lastRows, CreatedAt |-> s.CreatedAt]

\* Manager.save: Info() of every record, then Store.Save (temp file + rename)
SaveInfos(S) == [st |-> "valid", infos |-> [id \in DOMAIN S |-> Info(S[id])]]

\* Create: the "--session-id" scan over args for tool claude
RECURSIVE FindSessionID(_)
FindSessionID(a) ==
  IF a = <<>> THEN [has |-> FALSE, id |-> ""]
  ELSE IF Head(a) = "--session-id"
       THEN [has |-> TRUE, id |-> IF Len(a) > 1 THEN a[2] ELSE ""]
       ELSE FindSessionID(Tail(a))

CreateToolSessionID(tool, id, args) ==
  IF tool = "claude"
  THEN IF FindSessionID(args).has THEN FindSessionID(args).id ELSE "uuid_" \o id
  ELSE IF tool = "tmux" THEN "kojo_" \o id ELSE ""

CreateRunArgs(tool, id, args, workDir) ==
  IF tool = "claude"
  THEN IF FindSessionID(args).has THEN args
       ELSE args \o <<"--session-id", "uuid_" \o id>>
  ELSE IF tool = "tmux"
       THEN <<"new-session", "-A", "-s", "kojo_" \o id, "-c", workDir>>
       ELSE args

\* a Create that records the arguments the process was launched with
CreateRecordRunArgs(args, runArgs) == runArgs

\* Create: "Args: args" of the Session literal
CreateRecordArgs(args, runArgs) == args

\* the Session literal of Create
NewSession(id, tool, workDir, args, parentID, tmuxName, rawPipe) ==
  [ID |-> id, Tool |-> tool, WorkDir |-> workDir,
   Args |-> CreateRecordArgs(args, CreateRunArgs(tool, id, args, workDir)),
   PTY |-> "open", Cmd |-> "running", CreatedAt |-> "recent",
   Status |-> StatusRunning, ExitCode |-> <<>>, YoloMode |-> FALSE,
   Internal |-> tool \in internalTools,
   ToolSessionID |-> CreateToolSessionID(tool, id, args),
   ParentID |-> parentID, TmuxSessionName |-> tmuxName,
   restarting |-> FALSE, rawPipe |-> rawPipe, lastCols |-> 0, lastRows |-> 0,
   lastOutput |-> <<>>, done |-> 1, readDone |-> "open", readLoop |-> FALSE]

IdleCreator == [pc |-> "idle", tool |-> "", args |-> <<>>, parent |-> "",
                pend |-> <<>>, how |-> "", ret |-> ""]

\* startLoops: go readLoop; go drainLoop if rawPipe; go tmuxWaitLoop / waitLoop
startLoops(W, S, id) ==
  [W EXCEPT ![id][S[id].done] =
     [NoLoop EXCEPT !.kind = IF S[id].TmuxSessionName # "" THEN "tmux" ELSE "direct",
                    !.pc = IF S[id].TmuxSessionName # "" THEN "select" ELSE "wait"]]

\* Create up to the launch: validation, generateID, run-args, startTmuxAttach
\* (tmuxNewSession, tmuxStartPipePane, pty.StartWithSize) or pty.Start
\* tools, argss, parents: the inputs the callers pass
CreateLaunch(c, tools, argss, parents) ==
  /\ ~panicked
  /\ nm.pc = "ready"
  /\ cr[c].pc = "idle"
  /\ idPool # {}
  /\ \E tool \in tools, args \in argss,
        parent \in parents \cup DOMAIN sessions, id \in idPool,
        found, dirOK, pipeOK, startOK \in BOOLEAN,
        newRes \in {"ok", "nosession", "optfail"} :
       LET name == tmuxSessionName(id)
           runArgs == CreateRunArgs(tool, id, args, "/w")
           call == [IdleCreator EXCEPT !.tool = tool, !.args = args,
                                       !.parent = parent]
           failed == [IdleCreator EXCEPT !.pc = "done", !.how = "error"]
       IN /\ idPool' = IF isAllowedTool(tool) /\ found /\ dirOK
                       THEN idPool \ {id} ELSE idPool
          /\ IF ~isAllowedTool(tool) \/ ~found \/ ~dirOK
             THEN /\ cr' = [cr EXCEPT ![c] = failed]
                  /\ UNCHANGED <<tmux, fifos, launched>>
             ELSE IF tool \in userTools
             THEN IF newRes = "nosession"
                  THEN /\ cr' = [cr EXCEPT ![c] = failed]
                       /\ UNCHANGED <<tmux, fifos, launched>>
                  ELSE IF newRes = "optfail"
                  THEN \* new-session succeeded, a set-option failed: error returned
                       /\ cr' = [cr EXCEPT ![c] = failed]
                       /\ tmux' = [tmux EXCEPT ![name] =
                                     [st |-> "alive", code |-> 0, remain |-> TRUE]]
                       /\ UNCHANGED <<fifos, launched>>
                  ELSE IF ~startOK
                  THEN \* attach failed: tmuxCleanupPipePane, tmuxKillSession
                       /\ cr' = [cr EXCEPT ![c] = failed]
                       /\ UNCHANGED <<tmux, fifos, launched>>
                  ELSE /\ tmux' = [tmux EXCEPT ![name] =
                                     [st |-> "alive", code |-> 0, remain |-> TRUE]]
                       /\ fifos' = IF pipeOK THEN fifos \cup {name} ELSE fifos
                       /\ launched' = [launched EXCEPT ![id] = runArgs]
                       /\ cr' = [cr EXCEPT ![c] =
                            [call EXCEPT !.pc = "register",
                               !.pend = <<NewSession(id, tool, "/w", args, parent,
                                                     name, pipeOK)>>]]
             ELSE IF ~startOK
                  THEN /\ cr' = [cr EXCEPT ![c] = failed]
                       /\ UNCHANGED <<tmux, fifos, launched>>
                  ELSE \* direct PTY: the tmux client creates/attaches session kojo_<id>
                       /\ tmux' = [tmux EXCEPT ![name] =
                                     [st |-> "alive", code |-> 0, remain |-> FALSE]]
                       /\ launched' = [launched EXCEPT ![id] = runArgs]
                       /\ cr' = [cr EXCEPT ![c] =
                            [call EXCEPT !.pc = "register",
                               !.pend = <<NewSession(id, tool, "/w", args, parent,
                                                     "", FALSE)>>]]
                       /\ UNCHANGED fifos
  /\ UNCHANGED <<sessions, shuttingDown, file, wl, rc, st, sa, doneCloses, panicked, nm>>
  /\ UNCHANGED <<subVars, yoloVars, extVars>>

\* Create under m.mu: duplicate-child check, else insert; then startLoops and save
CreateRegister(c) ==
  /\ ~panicked
  /\ cr[c].pc = "register"
  /\ LET s == cr[c].pend[1]
         dups == {e \in DOMAIN sessions :
                    /\ s.ParentID # ""
                    /\ sessions[e].ParentID = s.ParentID
                    /\ sessions[e].Tool = s.Tool
                    /\ sessions[e].Status = StatusRunning}
     IN IF dups # {}
        THEN \* discard ours: kill and reap the process, close PTY, cleanup, kill mux
             \E e \in dups :
               /\ cr' = [cr EXCEPT ![c] = [@ EXCEPT !.pc = "done", !.how = "existing",
                                              !.ret = e, !.pend = <<>>]]
               /\ fifos' = RemoveFifo(fifos, s.TmuxSessionName)
               /\ tmux' = tmuxKillSession(tmux, s.TmuxSessionName)
               /\ UNCHANGED <<sessions, wl, file>>
        ELSE LET S1 == (s.ID :> [s EXCEPT !.readLoop = TRUE]) @@ sessions
             IN /\ sessions' = S1
                /\ wl' = startLoops(wl, S1, s.ID)
                /\ file' = SaveInfos(S1)
                /\ cr' = [cr EXCEPT ![c] = [@ EXCEPT !.pc = "done", !.how = "inserted",
                                               !.ret = s.ID, !.pend = <<>>]]
                /\ UNCHANGED <<tmux, fifos>>
  /\ UNCHANGED <<shuttingDown, idPool, rc, st, sa, doneCloses, panicked, nm, launched>>
  /\ UNCHANGED <<subVars, yoloVars, extVars>>

\* ---------------------------------------------------------- environment
\* the attach process / direct child of a session exits (on its own, or killed)
ProcExit(id) ==
  /\ ~panicked
  /\ id \in DOMAIN sessions
  /\ sessions[id].Cmd = "running"
  /\ sessions' = [sessions EXCEPT ![id].Cmd = "exited"]
  /\ UNCHANGED <<shuttingDown, file, tmux, fifos, idPool, wl, cr, rc, st, sa,
                 doneCloses, panicked, nm, launched>>
  /\ UNCHANGED <<subVars, yoloVars, extVars>>

\* the program in a pane exits; remain-on-exit keeps the dead pane, without it
\* the tmux session ends
PaneExit(name) ==
  /\ ~panicked
  /\ tmux[name].st = "alive"
  /\ \E c \in ExitCodes :
       tmux' = IF tmux[name].remain
               THEN [tmux EXCEPT ![name].st = "dead", ![name].code = c]
               ELSE tmuxKillSession(tmux, name)
  /\ UNCHANGED <<sessions, shuttingDown, file, fifos, idPool, wl, cr, rc, st, sa,
                 doneCloses, panicked, nm, launched>>
  /\ UNCHANGED <<subVars, yoloVars, extVars>>

\* a tmux session disappears (killed from outside, server exit)
TmuxGone(name) ==
  /\ ~panicked
  /\ tmux[name].st # "none"
  /\ tmux' = tmuxKillSession(tmux, name)
  /\ UNCHANGED <<sessions, shuttingDown, file, fifos, idPool, wl, cr, rc, st, sa,
                 doneCloses, panicked, nm, launched>>
  /\ UNCHANGED <<subVars, yoloVars, extVars>>

\* readLoop returns (Read error or EOF); its deferred close(readDone) runs
ReadLoopReturn(id) ==
  /\ ~panicked
  /\ id \in DOMAIN sessions
  /\ sessions[id].readLoop
  /\ sessions' = [sessions EXCEPT ![id].readLoop = FALSE, ![id].readDone = "closed"]
  /\ UNCHANGED <<shuttingDown, file, tmux, fifos, idPool, wl, cr, rc, st, sa,
                 doneCloses, panicked, nm, launched>>
  /\ UNCHANGED <<subVars, yoloVars, extVars>>

\* ------------------------------------------------------------ wait loops
\* a loop whose goroutine has returned
Returned == [NoLoop EXCEPT !.pc = "ret"]

LoopAt(id, e, pc) ==
  /\ ~panicked
  /\ id \in DOMAIN sessions
  /\ wl[id][e].pc = pc

\* waitLoop: s.Cmd.Wait() returns; close the PTY
DirectWait(id, e) ==
  /\ LoopAt(id, e, "wait")
  /\ sessions[id].Cmd = "exited"
  /\ \E c \in ExitCodes :
       wl' = [wl EXCEPT ![id][e].pc = "awaitRead", ![id][e].code = c]
  /\ sessions' = [sessions EXCEPT ![id].PTY = "nil"]
  /\ UNCHANGED <<shuttingDown, file, tmux, fifos, idPool, cr, rc, st, sa,
                 doneCloses, panicked, nm, launched>>
  /\ UNCHANGED <<subVars, yoloVars, extVars>>

\* waitLoop: <-s.readDone, then completeExit
DirectAwaitRead(id, e) ==
  /\ LoopAt(id, e, "awaitRead")
  /\ sessions[id].readDone = "closed"
  /\ wl' = [wl EXCEPT ![id][e].pc = "ce_set"]
  /\ UNCHANGED <<sessions, shuttingDown, file, tmux, fifos, idPool, cr, rc, st, sa,
                 doneCloses, panicked, nm, launched>>
  /\ UNCHANGED <<subVars, yoloVars, extVars>>

\* tmuxWaitLoop, case <-ticker.C: read m.shuttingDown
TmuxTickCheck(id, e) ==
  /\ LoopAt(id, e, "select")
  /\ wl' = [wl EXCEPT ![id][e] = IF shuttingDown THEN Returned
                                  ELSE [@ EXCEPT !.pc = "tick", !.spawned = {}]]
  /\ UNCHANGED <<sessions, shuttingDown, file, tmux, fifos, idPool, cr, rc, st, sa,
                 doneCloses, panicked, nm, launched>>
  /\ UNCHANGED <<subVars, yoloVars, extVars>>

\* a wait loop that keeps counting errors across a successful poll
consecutiveErrorsKept(n, paneErr) == IF paneErr THEN n + 1 ELSE n

\* tmuxWaitLoop: consecutiveErrors++ on a tmuxPaneDead error, consecutiveErrors = 0
\* after a poll that answered
consecutiveErrorsAfter(n, paneErr) == IF paneErr THEN n + 1 ELSE 0

\* tmuxWaitLoop, ticker: tmuxHasSession, tmuxPaneDead, readDone check
TmuxTickPoll(id, e) ==
  /\ LoopAt(id, e, "tick")
  /\ LET s == sessions[id]
         name == s.TmuxSessionName
     IN IF tmux[name].st = "none"
        THEN \* tmux session gone entirely: finalizeTmuxSession(s, 1, ...)
             /\ wl' = [wl EXCEPT ![id][e].pc = "finalize", ![id][e].code = 1,
                                 ![id][e].errs = 0]
             /\ UNCHANGED <<sessions, tmux, fifos>>
        ELSE \E paneErr \in BOOLEAN :
          LET n == consecutiveErrorsAfter(wl[id][e].errs, paneErr) IN
          IF paneErr
          THEN IF n >= maxConsecutiveErrors
               THEN /\ tmux' = tmuxKillSession(tmux, name)
                    /\ wl' = [wl EXCEPT ![id][e].pc = "finalize", ![id][e].code = 1,
                                        ![id][e].errs = n]
                    /\ UNCHANGED <<sessions, fifos>>
               ELSE /\ wl' = [wl EXCEPT ![id][e].pc = "select", ![id][e].errs = n]
                    /\ UNCHANGED <<sessions, tmux, fifos>>
          ELSE IF tmux[name].st = "dead"
          THEN /\ tmux' = tmuxKillSession(tmux, name)
               /\ wl' = [wl EXCEPT ![id][e].pc = "finalize", ![id][e].errs = 0,
                                   ![id][e].code = tmux[name].code]
               /\ UNCHANGED <<sessions, fifos>>
          ELSE \* pane alive; if pipe-pane is active but readLoop died, force reattach
               /\ wl' = [wl EXCEPT ![id][e].pc = "select", ![id][e].errs = n]
               /\ IF s.rawPipe /\ s.readDone = "closed"
                  THEN /\ sessions' = [sessions EXCEPT ![id].rawPipe = FALSE,
                                         ![id].Cmd = IF s.Cmd = "nil" THEN "nil" ELSE "exited"]
                       /\ fifos' = RemoveFifo(fifos, name)
                  ELSE UNCHANGED <<sessions, fifos>>
               /\ UNCHANGED tmux
  /\ UNCHANGED <<shuttingDown, file, idPool, cr, rc, st, sa, doneCloses, panicked, nm,
                 launched>>
  /\ UNCHANGED <<subVars, yoloVars, extVars>>

\* tmuxWaitLoop, case <-attachExited: read m.shuttingDown
TmuxAttachExited(id, e) ==
  /\ LoopAt(id, e, "select")
  /\ sessions[id].Cmd \in {"exited", "nil"}
  /\ wl' = [wl EXCEPT ![id][e] = IF shuttingDown THEN Returned
                                  ELSE [@ EXCEPT !.pc = "ae_close", !.spawned = {}]]
  /\ UNCHANGED <<sessions, shuttingDown, file, tmux, fifos, idPool, cr, rc, st, sa,
                 doneCloses, panicked, nm, launched>>
  /\ UNCHANGED <<subVars, yoloVars, extVars>>

\* attachExited: close the attach PTY; await readDone or detect a dead readLoop
TmuxAttachClose(id, e) ==
  /\ LoopAt(id, e, "ae_close")
  /\ LET s == sessions[id]
         stale == s.rawPipe /\ s.readDone = "closed"
     IN /\ sessions' = [sessions EXCEPT ![id].PTY = "nil",
                          ![id].rawPipe = IF stale THEN FALSE ELSE s.rawPipe]
        /\ fifos' = IF stale THEN RemoveFifo(fifos, s.TmuxSessionName) ELSE fifos
        /\ wl' = [wl EXCEPT ![id][e].pc = "ae_query",
                            ![id][e].hasRawPipe = s.rawPipe /\ ~stale]
  /\ UNCHANGED <<shuttingDown, file, tmux, idPool, cr, rc, st, sa, doneCloses,
                 panicked, nm, launched>>
  /\ UNCHANGED <<subVars, yoloVars, extVars>>

\* a reattachTmux that never finds pipe-pane active
pipeNeverActive(s) == FALSE

\* reattachTmux: pipeAlreadyActive := s.rawPipe != nil, unless readDone is closed
pipeAlreadyActive(s) == s.rawPipe /\ s.readDone = "open"

\* reattachTmux: the goroutines it starts, go m.readLoop(s) for a new pipe-pane
\* and go m.drainLoop(s) whenever s.rawPipe != nil
reattachSpawns(newPipe, hasPipe) ==
  (IF newPipe THEN {"readLoop"} ELSE {}) \cup (IF hasPipe THEN {"drainLoop"} ELSE {})

\* attachExited: tmuxHasSession / tmuxPaneDead, then completeExit or reattachTmux
TmuxAttachQuery(id, e) ==
  /\ LoopAt(id, e, "ae_query")
  /\ LET s == sessions[id]
         name == s.TmuxSessionName
         hasRawPipe == wl[id][e].hasRawPipe
         \* if hasRawPipe { s.cleanupPipePane(); m.awaitReadDone(s) }
         cleaned == [sessions EXCEPT ![id].rawPipe = IF hasRawPipe THEN FALSE ELSE s.rawPipe]
         cleanedFifos == IF hasRawPipe THEN RemoveFifo(fifos, name) ELSE fifos
     IN IF tmux[name].st = "none"
        THEN /\ wl' = [wl EXCEPT ![id][e] = [NoLoop EXCEPT !.pc = "ce_set", !.code = 1]]
             /\ sessions' = cleaned
             /\ fifos' = cleanedFifos
             /\ UNCHANGED tmux
        ELSE IF tmux[name].st = "dead"
        THEN /\ tmux' = tmuxKillSession(tmux, name)
             /\ wl' = [wl EXCEPT ![id][e] = [NoLoop EXCEPT !.pc = "ce_set",
                                                          !.code = tmux[name].code]]
             /\ sessions' = cleaned
             /\ fifos' = cleanedFifos
        ELSE \* reattachTmux
             \E pipeOK, startOK \in BOOLEAN :
               LET active == pipeAlreadyActive(s)
                   stale == s.rawPipe /\ ~active
                   newPipe == ~active /\ pipeOK
               IN /\ UNCHANGED tmux
                  /\ IF ~startOK
                     THEN /\ wl' = [wl EXCEPT ![id][e] = [NoLoop EXCEPT !.pc = "ce_set", !.code = 1]]
                          /\ sessions' = [sessions EXCEPT ![id].rawPipe = FALSE]
                          /\ fifos' = RemoveFifo(fifos, name)
                     ELSE /\ wl' = [wl EXCEPT ![id][e].pc = "select",
                                              ![id][e].hasRawPipe = FALSE,
                                              ![id][e].spawned =
                                                reattachSpawns(newPipe, active \/ newPipe)]
                          /\ sessions' = [sessions EXCEPT
                               ![id].PTY = "open", ![id].Cmd = "running",
                               ![id].rawPipe = active \/ newPipe,
                               ![id].readDone = IF newPipe THEN "open" ELSE s.readDone,
                               ![id].readLoop = IF newPipe THEN TRUE ELSE s.readLoop]
                          /\ fifos' = IF newPipe THEN fifos \cup {name}
                                      ELSE IF stale THEN RemoveFifo(fifos, name)
                                      ELSE fifos
  /\ UNCHANGED <<shuttingDown, file, idPool, cr, rc, st, sa, doneCloses, panicked,
                 nm, launched>>
  /\ UNCHANGED <<subVars, yoloVars, extVars>>

\* finalizeTmuxSession: kill the attach process, cleanupPipePane, close the PTY,
\* awaitReadDone; then completeExit
FinalizeTmuxSession(id, e) ==
  /\ LoopAt(id, e, "finalize")
  /\ sessions' = [sessions EXCEPT
                    ![id].Cmd = IF sessions[id].Cmd = "running" THEN "exited"
                                ELSE sessions[id].Cmd,
                    ![id].rawPipe = FALSE, ![id].PTY = "nil"]
  /\ fifos' = RemoveFifo(fifos, sessions[id].TmuxSessionName)
  /\ wl' = [wl EXCEPT ![id][e].pc = "ce_set"]
  /\ UNCHANGED <<shuttingDown, file, tmux, idPool, cr, rc, st, sa, doneCloses,
                 panicked, nm, launched>>
  /\ UNCHANGED <<subVars, yoloVars, extVars>>

\* completeExit: s.mu.Lock(); Status, lastOutput, ExitCode; s.mu.Unlock()
CompleteExitSet(id, e) ==
  /\ LoopAt(id, e, "ce_set")
  /\ sessions' = [sessions EXCEPT ![id].Status = StatusExited,
                                  ![id].lastOutput = <<LastOutputOf(scrollback)>>,
                                  ![id].ExitCode = <<wl[id][e].code>>]
  /\ wl' = [wl EXCEPT ![id][e] = [NoLoop EXCEPT !.pc = "ce_close"]]
  /\ UNCHANGED <<shuttingDown, file, tmux, fifos, idPool, cr, rc, st, sa,
                 doneCloses, panicked, nm, launched>>
  /\ UNCHANGED <<subVars, yoloVars, extRest>>
  /\ exitLog' = [exitLog EXCEPT ![id] =
                  Append(@, [ev |-> IF sessions[id].Status = StatusRunning
                                    THEN "exited" ELSE "again", e |-> e])]

\* completeExit: close(s.done), s.done read at this moment without the lock;
\* closing a closed channel panics
CompleteExitClose(id, e) ==
  /\ LoopAt(id, e, "ce_close")
  /\ LET d == sessions[id].done
     IN /\ doneCloses' = [doneCloses EXCEPT ![id][d] = Append(@, e)]
        /\ panicked' = (doneCloses[id][d] # <<>>)
  /\ wl' = [wl EXCEPT ![id][e].pc = "ce_rest"]
  /\ UNCHANGED <<sessions, shuttingDown, file, tmux, fifos, idPool, cr, rc, st, sa,
                 nm, launched>>
  /\ UNCHANGED <<subVars, yoloVars, extRest>>
  /\ exitLog' = [exitLog EXCEPT ![id] =
                  Append(@, [ev |-> IF doneCloses[id][sessions[id].done] # <<>>
                                    THEN "panic" ELSE "closed", e |-> e])]

\* ------------------------------------------------------------------ Stop
\* a Stop that goes ahead whatever the state of the record
StopNeverRejected(s) == FALSE

\* Stop's guard: Status != StatusRunning || s.restarting
StopRejected(s) == s.Status # StatusRunning \/ s.restarting

\* children of any tool
StopKidsAnyTool(S, X) ==
  {c \in DOMAIN S : S[c].ParentID \in X /\ ~StopRejected(S[c])}

\* findChildSessions(id, "tmux") filtered by childStatus == StatusRunning
StopKids(S, X) ==
  {c \in DOMAIN S : S[c].ParentID \in X /\ S[c].Tool = "tmux" /\ ~StopRejected(S[c])}

\* the sessions one Stop call reaches: the session and, recursively, its
\* running children of tool tmux
RECURSIVE StopSet(_, _)
StopSet(S, X) ==
  LET Y == X \cup StopKids(S, X) IN IF Y = X THEN X ELSE StopSet(S, Y)

\* tmux kill-session for the backing session and for an internal tmux tool session
StopTmux(S, T, X) ==
  [n \in DOMAIN T |->
     IF \E i \in X : \/ S[i].TmuxSessionName = n
                     \/ (S[i].Tool = "tmux" /\ S[i].ToolSessionID = n)
     THEN NoMux ELSE T[n]]

\* SIGTERM, then SIGKILL after 5 s unless done: the process exits
StopSignal(S, X) ==
  [i \in DOMAIN S |->
     IF i \in X /\ S[i].Cmd = "running" THEN [S[i] EXCEPT !.Cmd = "exited"] ELSE S[i]]

\* a completeExit that never notifies
OnSessionExitNever == "skipped"

\* completeExit: if m.OnSessionExit != nil { m.OnSessionExit(s) }
OnSessionExit == "called"

\* completeExit: m.save(); stop the running tmux children; log; OnSessionExit;
\* the goroutine returns
CompleteExitRest(id, e) ==
  /\ LoopAt(id, e, "ce_rest")
  /\ LET X == StopSet(sessions, StopKids(sessions, {id})) \ {id}
     IN /\ file' = SaveInfos(sessions)
        /\ tmux' = StopTmux(sessions, tmux, X)
        /\ sessions' = StopSignal(sessions, X)
  /\ wl' = [wl EXCEPT ![id][e] = Returned]
  /\ UNCHANGED <<shuttingDown, fifos, idPool, cr, rc, st, sa, doneCloses,
                 panicked, nm, launched>>
  /\ UNCHANGED <<subVars, yoloVars, extRest>>
  /\ exitLog' = [exitLog EXCEPT ![id] = Append(@, [ev |-> OnSessionExit, e |-> e])]

\* Manager.Stop(id)
Stop(id) ==
  /\ ~panicked
  /\ nm.pc = "ready"
  /\ id \in DOMAIN sessions
  /\ IF StopRejected(sessions[id])
     THEN /\ st' = [id |-> id, res |-> "error"]
          /\ UNCHANGED <<sessions, tmux>>
     ELSE LET X == StopSet(sessions, {id})
          IN /\ st' = [id |-> id, res |-> "ok"]
             /\ tmux' = StopTmux(sessions, tmux, X)
             /\ sessions' = StopSignal(sessions, X)
  /\ UNCHANGED <<shuttingDown, file, fifos, idPool, wl, cr, rc, sa, doneCloses,
                 panicked, nm, launched>>
  /\ UNCHANGED <<subVars, yoloVars, extVars>>

\* --------------------------------------------------------------- StopAll
\* StopAll: m.shuttingDown = true
StopAllFlag ==
  /\ ~panicked
  /\ nm.pc = "ready"
  /\ sa.pc = "idle"
  /\ shuttingDown' = TRUE
  /\ sa' = [sa EXCEPT !.pc = "collect"]
  /\ UNCHANGED <<sessions, file, tmux, fifos, idPool, wl, cr, rc, st, doneCloses,
                 panicked, nm, launched>>
  /\ UNCHANGED <<subVars, yoloVars, extVars>>

\* StopAll: collect the running sessions by type under m.mu
StopAllCollect ==
  /\ ~panicked
  /\ sa.pc = "collect"
  /\ sa' = [pc |-> "stop", timedOut |-> FALSE,
            nonTmux |-> {i \in DOMAIN sessions : sessions[i].Status = StatusRunning
                                                 /\ sessions[i].TmuxSessionName = ""},
            mux |-> {i \in DOMAIN sessions : sessions[i].Status = StatusRunning
                                             /\ sessions[i].TmuxSessionName # ""}]
  /\ UNCHANGED <<sessions, shuttingDown, file, tmux, fifos, idPool, wl, cr, rc, st,
                 doneCloses, panicked, nm, launched>>
  /\ UNCHANGED <<subVars, yoloVars, extVars>>

\* StopAll: Stop every collected direct session
StopAllStopDirect ==
  /\ ~panicked
  /\ sa.pc = "stop"
  /\ LET X == StopSet(sessions, {i \in sa.nonTmux : ~StopRejected(sessions[i])})
     IN /\ tmux' = StopTmux(sessions, tmux, X)
        /\ sessions' = StopSignal(sessions, X)
  /\ sa' = [sa EXCEPT !.pc = IF sa.nonTmux = {} THEN "detach" ELSE "wait"]
  /\ UNCHANGED <<shuttingDown, file, fifos, idPool, wl, cr, rc, st, doneCloses,
                 panicked, nm, launched>>
  /\ UNCHANGED <<subVars, yoloVars, extVars>>

\* StopAll: for a collected direct session, select on s.done (read now) and a
\* 10 s timer; sa.timedOut records that some timer fired
StopAllWait(id) ==
  /\ ~panicked
  /\ sa.pc = "wait"
  /\ id \in sa.nonTmux
  /\ \E timeout \in BOOLEAN :
       /\ ~timeout => doneCloses[id][sessions[id].done] # <<>>
       /\ sa' = [sa EXCEPT !.nonTmux = @ \ {id},
                           !.timedOut = @ \/ timeout,
                           !.pc = IF sa.nonTmux = {id} THEN "detach" ELSE "wait"]
  /\ UNCHANGED <<sessions, shuttingDown, file, tmux, fifos, idPool, wl, cr, rc, st,
                 doneCloses, panicked, nm, launched>>
  /\ UNCHANGED <<subVars, yoloVars, extVars>>

\* StopAll: detach the collected tmux-backed sessions (cleanupPipePane, kill the
\* attach process, close the PTY); the tmux sessions stay
StopAllDetach ==
  /\ ~panicked
  /\ sa.pc = "detach"
  /\ sessions' = [i \in DOMAIN sessions |->
                    IF i \in sa.mux
                    THEN [sessions[i] EXCEPT
                            !.rawPipe = FALSE, !.PTY = "nil",
                            !.Cmd = IF @ = "running" THEN "exited" ELSE @]
                    ELSE sessions[i]]
  /\ fifos' = fifos \ {sessions[i].TmuxSessionName : i \in sa.mux}
  /\ sa' = [sa EXCEPT !.pc = "done"]
  /\ UNCHANGED <<shuttingDown, file, tmux, idPool, wl, cr, rc, st, doneCloses,
                 panicked, nm, launched>>
  /\ UNCHANGED <<subVars, yoloVars, extVars>>

\* --------------------------------------------------------------- Restart
\* buildRestartArgs, case "claude" / "gemini": strip resume flags (and their value)
RECURSIVE StripResume(_, _)
StripResume(a, alsoContinue) ==
  IF a = <<>> THEN <<>>
  ELSE IF Head(a) \in {"--resume", "-r"}
       THEN StripResume(IF Len(a) > 1 THEN Tail(Tail(a)) ELSE <<>>, alsoContinue)
       ELSE IF alsoContinue /\ Head(a) \in {"--continue", "-c"}
            THEN StripResume(Tail(a), alsoContinue)
            ELSE <<Head(a)>> \o StripResume(Tail(a), alsoContinue)

buildRestartArgs(tool, origArgs, toolSessionID) ==
  CASE tool = "claude" ->
         IF toolSessionID # ""
         THEN StripResume(origArgs, TRUE) \o <<"--resume", toolSessionID>>
         ELSE StripResume(origArgs, TRUE) \o <<"--continue">>
    [] tool = "codex" ->
         IF toolSessionID # "" THEN <<"resume", toolSessionID>>
         ELSE <<"resume", "--last">>
    [] tool = "gemini" -> StripResume(origArgs, FALSE) \o <<"--resume", "latest">>
    [] tool = "tmux" ->
         IF toolSessionID # "" THEN <<"new-session", "-A", "-s", toolSessionID>>
         ELSE origArgs
    [] OTHER -> origArgs

\* a Restart that checks the status only
RestartRejectedNoFlag(s) == s.Status = StatusRunning

\* Restart's guard: s.Status == StatusRunning || s.restarting
RestartRejected(s) == s.Status = StatusRunning \/ s.restarting

\* a Restart that keeps the arguments it launched with
RestartKeepsRestartArgs(args, restartArgs) == restartArgs

\* Restart: "s.Args = args"
RestartKeepsArgs(args, restartArgs) == args

\* a Restart that returns its error with the flag still set
clearRestartingNever(S, id) == S

\* Restart: clearRestarting := func() { s.restarting = false } under s.mu
clearRestarting(S, id) == [S EXCEPT ![id].restarting = FALSE]

IdleRestarter == [pc |-> "idle", id |-> "", how |-> "", tmuxName |-> "",
                  rawPipe |-> FALSE, before |-> <<>>]

\* the fields of a record that Restart reads under the lock, with the other
\* fields it is to leave alone
RestartSnapshot(s) ==
  [ID |-> s.ID, Tool |-> s.Tool, WorkDir |-> s.WorkDir, Args |-> s.Args,
   ParentID |-> s.ParentID, ToolSessionID |-> s.ToolSessionID,
   TmuxSessionName |-> s.TmuxSessionName, lastCols |-> s.lastCols,
   lastRows |-> s.lastRows]

\* Restart: Get, the guard, restarting = true, the snapshot
RestartBegin(r, id) ==
  /\ ~panicked
  /\ nm.pc = "ready"
  /\ rc[r].pc = "idle"
  /\ id \in DOMAIN sessions
  /\ sessions[id].done < MaxEpochs
  /\ IF RestartRejected(sessions[id])
     THEN /\ rc' = [rc EXCEPT ![r] =
                    [IdleRestarter EXCEPT !.pc = "done", !.id = id,
                       !.how = IF sessions[id].restarting THEN "busy" ELSE "running"]]
          /\ UNCHANGED sessions
     ELSE /\ sessions' = [sessions EXCEPT ![id].restarting = TRUE]
          /\ rc' = [rc EXCEPT ![r] = [IdleRestarter EXCEPT !.pc = "launch", !.id = id,
                                         !.tmuxName = sessions[id].TmuxSessionName,
                                         !.before = <<RestartSnapshot(sessions[id])>>]]
  /\ UNCHANGED <<shuttingDown, file, tmux, fifos, idPool, wl, cr, st, sa, doneCloses,
                 panicked, nm, launched>>
  /\ UNCHANGED <<subVars, yoloVars, extVars>>

\* Restart: validation, cleanupPipePane, kill the old tmux session,
\* buildRestartArgs, startTmuxAttach or pty.Start
RestartLaunch(r) ==
  /\ ~panicked
  /\ rc[r].pc = "launch"
  /\ \E found, pipeOK, startOK \in BOOLEAN, newRes \in {"ok", "nosession", "optfail"} :
       LET id == rc[r].id
           b == rc[r].before[1]
           tool == b.Tool
           restartArgs == buildRestartArgs(tool, b.Args, b.ToolSessionID)
           failed == [rc[r] EXCEPT !.pc = "done", !.how = "error", !.before = <<>>]
           \* s.cleanupPipePane(); tmuxKillSession(old tmuxName) if it exists
           S0 == [sessions EXCEPT ![id].rawPipe = FALSE]
           F0 == RemoveFifo(fifos, b.TmuxSessionName)
           T0 == tmuxKillSession(tmux, b.TmuxSessionName)
           name == IF b.TmuxSessionName = "" THEN tmuxSessionName(id)
                   ELSE b.TmuxSessionName
       IN IF ~isAllowedTool(tool) \/ ~found
          THEN /\ rc' = [rc EXCEPT ![r] = failed]
               /\ sessions' = clearRestarting(sessions, id)
               /\ UNCHANGED <<tmux, fifos, launched>>
          ELSE IF tool \in userTools
          THEN IF newRes = "nosession" \/ (newRes = "ok" /\ ~startOK)
               THEN /\ rc' = [rc EXCEPT ![r] = failed]
                    /\ sessions' = clearRestarting(S0, id)
                    /\ tmux' = T0
                    /\ fifos' = F0
                    /\ UNCHANGED launched
               ELSE IF newRes = "optfail"
               THEN /\ rc' = [rc EXCEPT ![r] = failed]
                    /\ sessions' = clearRestarting(S0, id)
                    /\ tmux' = [T0 EXCEPT ![name] =
                                  [st |-> "alive", code |-> 0, remain |-> TRUE]]
                    /\ fifos' = F0
                    /\ UNCHANGED launched
               ELSE /\ rc' = [rc EXCEPT ![r].pc = "install", ![r].tmuxName = name,
                                        ![r].rawPipe = pipeOK]
                    /\ sessions' = S0
                    /\ tmux' = [T0 EXCEPT ![name] =
                                  [st |-> "alive", code |-> 0, remain |-> TRUE]]
                    /\ fifos' = IF pipeOK THEN F0 \cup {name} ELSE F0
                    /\ launched' = [launched EXCEPT ![id] = restartArgs]
          ELSE IF ~startOK
               THEN /\ rc' = [rc EXCEPT ![r] = failed]
                    /\ sessions' = clearRestarting(S0, id)
                    /\ tmux' = T0
                    /\ fifos' = F0
                    /\ UNCHANGED launched
               ELSE /\ rc' = [rc EXCEPT ![r].pc = "install", ![r].tmuxName = b.TmuxSessionName,
                                        ![r].rawPipe = FALSE]
                    /\ sessions' = S0
                    /\ tmux' = IF tool = "tmux" /\ b.ToolSessionID \in DOMAIN T0
                                  /\ T0[b.ToolSessionID].st = "none"
                               THEN [T0 EXCEPT ![b.ToolSessionID] =
                                       [st |-> "alive", code |-> 0, remain |-> FALSE]]
                               ELSE T0
                    /\ fifos' = F0
                    /\ launched' = [launched EXCEPT ![id] = restartArgs]
  /\ UNCHANGED <<shuttingDown, file, idPool, wl, cr, st, sa, doneCloses, panicked, nm>>
  /\ UNCHANGED <<subVars, yoloVars, extVars>>

\* Restart: the final critical section, startLoops, save
RestartInstall(r) ==
  /\ ~panicked
  /\ rc[r].pc = "install"
  /\ LET id == rc[r].id
         b == rc[r].before[1]
         S1 == [sessions EXCEPT
                  ![id].PTY = "open", ![id].Cmd = "running",
                  ![id].Args = RestartKeepsArgs(b.Args,
                                 buildRestartArgs(b.Tool, b.Args, b.ToolSessionID)),
                  ![id].TmuxSessionName = rc[r].tmuxName,
                  ![id].rawPipe = rc[r].rawPipe,
                  ![id].Status = StatusRunning, ![id].ExitCode = <<>>,
                  ![id].lastOutput = <<>>, ![id].restarting = FALSE,
                  ![id].done = sessions[id].done + 1,
                  ![id].readDone = "open", ![id].readLoop = TRUE]
     IN /\ sessions' = S1
        /\ wl' = startLoops(wl, S1, id)
        /\ file' = SaveInfos(S1)
        /\ rc' = [rc EXCEPT ![r].pc = "done", ![r].how = "ok"]
  /\ UNCHANGED <<shuttingDown, tmux, fifos, idPool, cr, st, sa, doneCloses, panicked,
                 nm, launched>>
  /\ UNCHANGED <<subVars, yoloVars, extVars>>

\* ------------------------------------------------------------ NewManager
EmptyMap == [x \in {} |-> x]

\* Store.Load: absent file -> (nil, nil); read or parse error -> (nil, err);
\* otherwise the entries younger than maxAge
StoreLoad(f) ==
  IF f.st = "absent" THEN [err |-> FALSE, infos |-> EmptyMap]
  ELSE IF f.st \in {"unreadable", "malformed"} THEN [err |-> TRUE, infos |-> EmptyMap]
  ELSE [err |-> FALSE,
        infos |-> [i \in {j \in DOMAIN f.infos : f.infos[j].CreatedAt = "recent"}
                     |-> f.infos[i]]]

\* loadPersistedSessions: the Session literal built from one persisted entry
LoadedSession(info) ==
  [ID |-> info.ID, Tool |-> info.Tool, WorkDir |-> info.WorkDir, Args |-> info.Args,
   PTY |-> "nil", Cmd |-> "nil", CreatedAt |-> info.CreatedAt,
   Status |-> StatusExited, ExitCode |-> info.ExitCode, YoloMode |-> info.YoloMode,
   Internal |-> info.Internal \/ info.Tool \in internalTools,
   ToolSessionID |-> info.ToolSessionID, ParentID |-> info.ParentID,
   TmuxSessionName |-> info.TmuxSessionName, restarting |-> FALSE,
   rawPipe |-> FALSE, lastCols |-> info.LastCols, lastRows |-> info.LastRows,
   lastOutput |-> info.LastOutput, done |-> 1, readDone |-> "nil",
   readLoop |-> FALSE]

\* a loadPersistedSessions that takes a pane for alive whenever the attach
\* process starts, whatever tmuxPaneDead reported
LoadHowNoDeadCheck(info, T, o) ==
  IF info.TmuxSessionName \notin DOMAIN T \/ T[info.TmuxSessionName].st = "none"
  THEN "none"
  ELSE IF o.paneErr THEN "kill"
  ELSE IF o.startOK THEN "restored" ELSE "kill"

\* loadPersistedSessions, per entry: what is done with its tmux session.
\* o = [paneErr, pipeOK, startOK] are the outcomes of tmuxPaneDead,
\* tmuxStartPipePane and pty.StartWithSize
LoadHow(info, T, o) ==
  IF info.TmuxSessionName \notin DOMAIN T \/ T[info.TmuxSessionName].st = "none"
  THEN "none"
  ELSE IF o.paneErr THEN "kill"
  ELSE IF T[info.TmuxSessionName].st = "dead" THEN "dead"
  ELSE IF o.startOK THEN "restored" ELSE "kill"

LoadRecord(info, T, o) ==
  LET how == LoadHow(info, T, o)
      base == LoadedSession(info)
  IN IF how = "restored"
     THEN [base EXCEPT !.PTY = "open", !.Cmd = "running", !.rawPipe = o.pipeOK,
                       !.Status = StatusRunning, !.ExitCode = <<>>,
                       !.lastOutput = <<>>, !.readDone = "open", !.readLoop = TRUE]
     ELSE IF how = "dead"
     THEN [base EXCEPT !.ExitCode = <<T[info.TmuxSessionName].code>>]
     ELSE base

LoadOutcomes == [paneErr : BOOLEAN, pipeOK : BOOLEAN, startOK : BOOLEAN]

\* the calls loadPersistedSessions made for an entry and what they returned:
\* tmuxPaneDead failed; pty.StartWithSize of the attach command succeeded
LoadProbed(info, T, o) ==
  LET exists == info.TmuxSessionName \in DOMAIN T /\ T[info.TmuxSessionName].st # "none"
  IN [paneErr |-> exists /\ o.paneErr,
      startOK |-> exists /\ ~o.paneErr /\ T[info.TmuxSessionName].st = "alive"
                  /\ o.startOK]

\* a NewManager that cleans up whatever Load returned
NewManagerAlwaysCleans(loadOK) == TRUE

\* NewManager: "if loadOK { m.cleanupOrphanedTmuxSessions() }"
NewManagerCleans(loadOK) == loadOK

\* NewManager: newStore, loadPersistedSessions
NewManagerLoad ==
  /\ ~panicked
  /\ nm.pc = "new"
  /\ LET l == StoreLoad(file)
     IN IF l.err
        THEN /\ nm' = [nm EXCEPT !.pc = IF NewManagerCleans(FALSE) THEN "loaded"
                                        ELSE "ready",
                                 !.loadOK = FALSE]
             /\ UNCHANGED <<sessions, tmux, fifos, wl, doneCloses>>
        ELSE \E o \in [DOMAIN l.infos -> LoadOutcomes] :
               LET how(i) == LoadHow(l.infos[i], tmux, o[i])
                   S1 == [i \in DOMAIN l.infos |-> LoadRecord(l.infos[i], tmux, o[i])]
                   gone == {l.infos[i].TmuxSessionName :
                              i \in {j \in DOMAIN l.infos : how(j) \in {"kill", "dead"}}}
                   piped == {l.infos[i].TmuxSessionName :
                               i \in {j \in DOMAIN l.infos :
                                        how(j) = "restored" /\ o[j].pipeOK}}
                   unpiped == {l.infos[i].TmuxSessionName :
                                 i \in {j \in DOMAIN l.infos :
                                          how(j) = "kill" /\ ~o[j].paneErr
                                          /\ tmux[l.infos[j].TmuxSessionName].st = "alive"}}
               IN /\ sessions' = S1
                  /\ tmux' = [n \in DOMAIN tmux |-> IF n \in gone THEN NoMux ELSE tmux[n]]
                  /\ fifos' = (fifos \ unpiped) \cup piped
                  /\ wl' = [i \in SessIds |->
                              IF i \in DOMAIN S1 /\ S1[i].Status = StatusRunning
                              THEN [wl[i] EXCEPT ![1] = [NoLoop EXCEPT !.kind = "tmux",
                                                                      !.pc = "select"]]
                              ELSE wl[i]]
                  /\ doneCloses' = [i \in SessIds |->
                                      IF i \in DOMAIN S1 /\ S1[i].Status # StatusRunning
                                      THEN [doneCloses[i] EXCEPT ![1] = <<1>>]
                                      ELSE doneCloses[i]]
                  /\ nm' = [nm EXCEPT !.pc = IF NewManagerCleans(TRUE) THEN "loaded"
                                             ELSE "ready",
                                      !.loadOK = TRUE,
                                      !.killed = gone,
                                      !.probed = [i \in DOMAIN l.infos |->
                                                    LoadProbed(l.infos[i], tmux, o[i])]]
  /\ UNCHANGED <<shuttingDown, file, idPool, cr, rc, st, sa, panicked, launched>>
  /\ UNCHANGED <<subVars, yoloVars, extVars>>

\* a cleanup that knows no session
cleanupKnownNone(S) == {}

\* cleanupOrphanedTmuxSessions: known[s.TmuxSessionName] = true for the records
\* with a tmux name and Status == StatusRunning
cleanupKnown(S) ==
  {S[i].TmuxSessionName :
     i \in {j \in DOMAIN S : S[j].TmuxSessionName # "" /\ S[j].Status = StatusRunning}}

\* cleanupOrphanedTmuxSessions: kill the kojo_ tmux sessions and remove the
\* FIFO files of names that no running record has
NewManagerCleanup ==
  /\ ~panicked
  /\ nm.pc = "loaded"
  /\ \E listOK, readDirOK \in BOOLEAN :
       LET known == cleanupKnown(sessions)
           listed == {n \in DOMAIN tmux : tmux[n].st # "none" /\ hasKojoPrefix(n)}
           orphans == {n \in listed : n \notin known}
           stale == {n \in fifos : n \notin known}
       IN IF ~listOK
          THEN /\ nm' = [nm EXCEPT !.pc = "ready", !.cleaned = TRUE, !.listErr = TRUE]
               /\ UNCHANGED <<tmux, fifos>>
          ELSE /\ tmux' = [n \in DOMAIN tmux |-> IF n \in orphans THEN NoMux ELSE tmux[n]]
               /\ fifos' = IF readDirOK THEN fifos \ stale ELSE fifos
               /\ nm' = [nm EXCEPT !.pc = "ready", !.cleaned = TRUE,
                                   !.killed = nm.killed \cup orphans,
                                   !.removed = IF readDirOK THEN stale ELSE {}]
  /\ UNCHANGED <<sessions, shuttingDown, file, idPool, wl, cr, rc, st, sa, doneCloses,
                 panicked, launched>>
  /\ UNCHANGED <<subVars, yoloVars, extVars>>
\* ------------------------------------------------------- yolo auto-approve
\* output is a sequence of tokens: "Q" a question "Do you ...?", "y" the
\* option "1. Yes", "x" any other text, "e" an ANSI escape sequence
YoloBytes == {"Q", "y", "x", "e"}

\* the data readLoop passes to one CheckYolo call
YoloChunks == UNION {[1..n -> YoloBytes] : n \in 1..MaxYoloChunk}

\* ansiRe.ReplaceAll(tail, " "): every escape sequence becomes one space
StripAnsi(t) == [i \in 1..Len(t) |-> IF t[i] = "e" THEN " " ELSE t[i]]

\* multiSpaceRe.ReplaceAll(clean, " "): a run of spaces becomes one space
RECURSIVE CollapseSpaces(_)
CollapseSpaces(t) ==
  IF Len(t) < 2 THEN t
  ELSE IF t[1] = " " /\ t[2] = " " THEN CollapseSpaces(Tail(t))
  ELSE <<t[1]>> \o CollapseSpaces(Tail(t))

\* CheckYolo: the text the pattern is matched against
YoloClean(t) == CollapseSpaces(StripAnsi(t))

\* yoloPattern.FindIndex(clean) != nil: a question followed, after at most
\* YoloGap characters, by the option
YoloFind(c) ==
  \E i, j \in 1..Len(c) :
    i < j /\ c[i] = "Q" /\ c[j] = "y" /\ j - i - 1 <= YoloGap

\* a CheckYolo that does not read s.YoloMode
CheckYoloAlwaysEnabled(mode) == TRUE

\* CheckYolo: "if !s.YoloMode { return nil, "" }"
CheckYoloEnabled(mode) == mode

\* a CheckYolo that keeps only the data of the current call
CheckYoloNoAccumulate(tail, data) ==
  IF Len(data) > yoloTailSize
  THEN SubSeq(data, Len(data) - yoloTailSize + 1, Len(data)) ELSE data

\* a CheckYolo that truncates to the first yoloTailSize bytes
CheckYoloKeepHead(tail, data) ==
  LET t == tail \o data
  IN IF Len(t) > yoloTailSize THEN SubSeq(t, 1, yoloTailSize) ELSE t

\* CheckYolo: append data to the tail, keep the last yoloTailSize bytes
CheckYoloAppend(tail, data) ==
  LET t == tail \o data
  IN IF Len(t) > yoloTailSize
     THEN SubSeq(t, Len(t) - yoloTailSize + 1, Len(t)) ELSE t

\* a CheckYolo that leaves the tail as it is after a match
CheckYoloKeepsTail(tail) == tail

\* CheckYolo after a match: s.yoloTail = nil
CheckYoloClear(tail) == <<>>

\* a timer callback that does not read the mode
YoloTimerAlwaysWrites(mode) == TRUE

\* the AfterFunc callback: "if !s.IsYoloMode() { return }"
YoloTimerWrites(mode) == mode

YoloInit ==
  /\ yoloMode = FALSE
  /\ yoloTail = <<>>
  /\ yc = [pc |-> "idle", on |-> FALSE, data |-> <<>>, tail |-> <<>>,
           approval |-> FALSE, prev |-> FALSE, fed |-> 0]
  /\ ytimers = <<>>
  /\ ysince = <<>>
  /\ yrun = <<>>

\* readLoop: s.CheckYolo(data), up to the end of its first critical section
\* (mode check, append, truncate, copy)
ReadLoopCheckYolo(data) ==
  /\ yc.pc = "idle"
  /\ yc.fed + Len(data) <= MaxYoloBytes
  /\ IF ~CheckYoloEnabled(yoloMode)
     THEN /\ yc' = [pc |-> "idle", on |-> FALSE, data |-> data, tail |-> <<>>,
                    approval |-> FALSE, prev |-> yc.approval,
                    fed |-> yc.fed + Len(data)]
          /\ yrun' = <<>>
          /\ UNCHANGED <<yoloTail, ysince>>
     ELSE /\ yoloTail' = CheckYoloAppend(yoloTail, data)
          /\ yc' = [pc |-> "matching", on |-> TRUE, data |-> data,
                    tail |-> yoloTail', approval |-> FALSE, prev |-> yc.approval,
                    fed |-> yc.fed + Len(data)]
          /\ ysince' = ysince \o data
          /\ yrun' = yrun \o data
  /\ UNCHANGED <<yoloMode, ytimers>>
  /\ UNCHANGED <<subVars, lifeVars, extVars>>

\* CheckYolo: match the cleaned copy of the tail; on a match clear the tail
\* and return the approval; readLoop then starts the 100 ms timer
ReadLoopYoloMatch ==
  /\ yc.pc = "matching"
  /\ IF YoloFind(YoloClean(yc.tail))
     THEN /\ yoloTail' = CheckYoloClear(yoloTail)
          /\ yc' = [yc EXCEPT !.pc = "idle", !.tail = <<>>, !.approval = TRUE]
          /\ ytimers' = Append(ytimers, [st |-> "pending", wrote |-> <<>>])
          /\ ysince' = <<>>
          /\ yrun' = <<>>
     ELSE /\ yc' = [yc EXCEPT !.pc = "idle", !.tail = <<>>, !.approval = FALSE]
          /\ UNCHANGED <<yoloTail, ytimers, ysince, yrun>>
  /\ UNCHANGED yoloMode
  /\ UNCHANGED <<subVars, lifeVars, extVars>>

\* Session.SetYoloMode(enabled): s.YoloMode = enabled; s.yoloTail = nil
SetYoloMode(enabled) ==
  /\ yoloMode' = enabled
  /\ yoloTail' = <<>>
  /\ ysince' = <<>>
  /\ UNCHANGED <<yc, ytimers, yrun>>
  /\ UNCHANGED <<subVars, lifeVars, extVars>>

\* the timer expires: the callback reads s.IsYoloMode()
YoloTimerExpire(i) ==
  /\ i \in DOMAIN ytimers
  /\ ytimers[i].st = "pending"
  /\ ytimers' = [ytimers EXCEPT ![i].st = IF YoloTimerWrites(yoloMode)
                                          THEN "write" ELSE "done"]
  /\ UNCHANGED <<yoloMode, yoloTail, yc, ysince, yrun>>
  /\ UNCHANGED <<subVars, lifeVars, extVars>>

\* the callback calls s.Write([]byte("\r")) once
YoloTimerWrite(i) ==
  /\ i \in DOMAIN ytimers
  /\ ytimers[i].st = "write"
  /\ ytimers' = [ytimers EXCEPT ![i].st = "done",
                                ![i].wrote = Append(@, "\r")]
  /\ UNCHANGED <<yoloMode, yoloTail, yc, ysince, yrun>>
  /\ UNCHANGED <<subVars, lifeVars, extVars>>

\* readLoop checking its output while clients switch yolo mode
NextYolo ==
  \/ \E data \in YoloChunks : ReadLoopCheckYolo(data)
  \/ ReadLoopYoloMatch
  \/ \E enabled \in BOOLEAN : SetYoloMode(enabled)

\* output made of complete prompts and other text, and the timers of the
\* approvals
NextYoloTimer ==
  \/ \E data \in {<<"Q", "y">>, <<"x">>} : ReadLoopCheckYolo(data)
  \/ ReadLoopYoloMatch
  \/ \E enabled \in BOOLEAN : SetYoloMode(enabled)
  \/ \E i \in 1..MaxYoloBytes : YoloTimerExpire(i)
  \/ \E i \in 1..MaxYoloBytes : YoloTimerWrite(i)

\* ---------------------------------------------------------- Session.Write
\* const maxRetries = 5
maxRetries == 5
\* PTYs the session gets in a run, and calls of Write
MaxPtys == 2
MaxWrites == 2
WriteData == {<<"\r">>, <<"a", "b">>}

IdleWriter == [pc |-> "idle", i |-> 0, pty |-> 0, data |-> <<>>, res |-> "none",
               calls |-> 0]

WriteInit ==
  /\ wPTY = 0
  /\ wClosed = {}
  /\ wDone = FALSE
  /\ wr = IdleWriter
  /\ wlog = <<>>

\* if i < maxRetries-1 { select { ... } }
WriteWaits(i) == i < maxRetries - 1

\* a select that ignores s.done
WriteSelectIgnoresDone(done) == FALSE

\* select: case <-s.done is ready once the channel is closed; the timer of
\* time.After(50ms), created on entry, is ready only after that time
WriteSelectDone(done) == done

\* pty.Write(data) on an open PTY
PtyWrite(log, h, data) == Append(log, <<h, data>>)

\* the session gets a PTY: startTmuxAttach / reattachTmux set s.PTY = ptmx
WritePTYInstall ==
  /\ wPTY = 0 /\ ~wDone
  /\ Cardinality(wClosed) < MaxPtys
  /\ wPTY' = Cardinality(wClosed) + 1
  /\ UNCHANGED <<wClosed, wDone, wr, wlog>>
  /\ UNCHANGED writeRest

\* waitLoop / tmuxWaitLoop: s.PTY.Close(); s.PTY = nil
WritePTYClose ==
  /\ wPTY # 0
  /\ wClosed' = wClosed \cup {wPTY}
  /\ wPTY' = 0
  /\ UNCHANGED <<wDone, wr, wlog>>
  /\ UNCHANGED writeRest

\* completeExit: close(s.done); the wait loops have set s.PTY = nil before
WriteDoneClose ==
  /\ wPTY = 0 /\ ~wDone
  /\ wDone' = TRUE
  /\ UNCHANGED <<wPTY, wClosed, wr, wlog>>
  /\ UNCHANGED writeRest

\* a client calls s.Write(data)
WriteCall(data) ==
  /\ wr.pc = "idle" /\ wr.calls < MaxWrites
  /\ wr' = [pc |-> "check", i |-> 0, pty |-> 0, data |-> data, res |-> "none",
            calls |-> wr.calls + 1]
  /\ UNCHANGED <<wPTY, wClosed, wDone, wlog>>
  /\ UNCHANGED writeRest

\* s.mu.Lock(); pty := s.PTY; s.mu.Unlock(); if pty != nil -> pty.Write;
\* else wait if i < maxRetries-1, else return 0, os.ErrClosed
WriteCheck ==
  /\ wr.pc = "check"
  /\ wr' = IF wPTY # 0 THEN [wr EXCEPT !.pc = "ptywrite", !.pty = wPTY]
           ELSE IF WriteWaits(wr.i) THEN [wr EXCEPT !.pc = "select"]
           ELSE [wr EXCEPT !.pc = "idle", !.res = "ErrClosed"]
  /\ UNCHANGED <<wPTY, wClosed, wDone, wlog>>
  /\ UNCHANGED writeRest

\* return pty.Write(data): a closed PTY returns an error and takes nothing
WritePtyWrite ==
  /\ wr.pc = "ptywrite"
  /\ IF wr.pty \in wClosed
     THEN /\ wr' = [wr EXCEPT !.pc = "idle", !.res = "ptyError"]
          /\ wlog' = wlog
     ELSE /\ wr' = [wr EXCEPT !.pc = "idle", !.res = "ok"]
          /\ wlog' = PtyWrite(wlog, wr.pty, wr.data)
  /\ UNCHANGED <<wPTY, wClosed, wDone>>
  /\ UNCHANGED writeRest

\* select: case <-s.done: return 0, os.ErrClosed
WriteSelectClosed ==
  /\ wr.pc = "select"
  /\ WriteSelectDone(wDone)
  /\ wr' = [wr EXCEPT !.pc = "idle", !.res = "ErrClosed"]
  /\ UNCHANGED <<wPTY, wClosed, wDone, wlog>>
  /\ UNCHANGED writeRest

\* select: case <-time.After(50 * time.Millisecond): next iteration (i++)
WriteSelectTimer ==
  /\ wr.pc = "select"
  /\ ~WriteSelectDone(wDone)
  /\ wr' = [wr EXCEPT !.pc = "check", !.i = @ + 1]
  /\ UNCHANGED <<wPTY, wClosed, wDone, wlog>>
  /\ UNCHANGED writeRest

WriteStep == WriteCheck \/ WritePtyWrite \/ WriteSelectClosed \/ WriteSelectTimer

NextWrite ==
  \/ WritePTYInstall
  \/ WritePTYClose
  \/ WriteDoneClose
  \/ \E data \in WriteData : WriteCall(data)
  \/ WriteCheck
  \/ WritePtyWrite
  \/ WriteSelectClosed
  \/ WriteSelectTimer

\* --------------------------------------------------------- Session.Resize
\* callers of Resize (one websocket connection each), their calls in a run
Resizers == {"z1", "z2"}
MaxResizes == 3
\* <<cols, rows>> a client asks for; a new Session has lastCols = lastRows = 0
Dims == {<<80, 24>>, <<100, 30>>}
NoSize == <<0, 0>>

IdleResizer == [pc |-> "idle", ptmx |-> 0, prev |-> NoSize, dims |-> NoSize,
                sizeOK |-> FALSE, mux |-> "none", res |-> "none"]

ResizeInit(name) ==
  /\ rzName = name
  /\ lastSize = NoSize
  /\ rz = [z \in Resizers |-> IdleResizer]
  /\ rzSized = {}
  /\ rzSent = <<>>
  /\ rzCalls = 0

\* a Resize that records the size although the mux resize failed
ResizeAfterMuxAlways(ok) == "update"

\* if err := tmuxResizePane(...); err != nil { return nil }; else go on to
\* the update of the dedup state
ResizeAfterMux(ok) == IF ok THEN "update" ELSE "idle"

\* s.mu.Lock(); ptmx := s.PTY; tmuxName := ...; prevCols, prevRows := ...
ResizeRead(z, dims) ==
  /\ rz[z].pc = "idle"
  /\ rzCalls < MaxResizes
  /\ rzCalls' = rzCalls + 1
  /\ rz' = [rz EXCEPT ![z] = [pc |-> "setsize", ptmx |-> wPTY, prev |-> lastSize,
                              dims |-> dims, sizeOK |-> FALSE, mux |-> "none",
                              res |-> "none"]]
  /\ UNCHANGED <<rzName, lastSize, rzSized, rzSent>>
  /\ UNCHANGED <<writeVars, resizeRest>>

\* if ptmx == nil { return os.ErrClosed }; if err := pty.Setsize(...) { return err }
\* Setsize fails on a closed PTY and may fail on an open one
ResizeSetsize(z) ==
  /\ rz[z].pc = "setsize"
  /\ IF rz[z].ptmx = 0
     THEN /\ rz' = [rz EXCEPT ![z].pc = "idle", ![z].res = "ErrClosed"]
          /\ rzSized' = rzSized
     ELSE \E ok \in BOOLEAN :
            /\ rz[z].ptmx \in wClosed => ~ok
            /\ rz' = [rz EXCEPT ![z].pc = IF ok THEN "mux" ELSE "idle",
                                ![z].sizeOK = ok,
                                ![z].res = IF ok THEN "none" ELSE "err"]
            /\ rzSized' = IF ok THEN rzSized \cup {rz[z].dims} ELSE rzSized
  /\ UNCHANGED <<rzName, lastSize, rzSent, rzCalls>>
  /\ UNCHANGED <<writeVars, resizeRest>>

\* if tmuxName != "" && (cols != prevCols || rows != prevRows) { tmuxResizePane }
ResizeMux(z) ==
  /\ rz[z].pc = "mux"
  /\ IF rzName # "" /\ rz[z].dims # rz[z].prev
     THEN \E ok \in BOOLEAN :
            /\ rzSent' = Append(rzSent, [dims |-> rz[z].dims, ok |-> ok])
            /\ rz' = [rz EXCEPT ![z].pc = ResizeAfterMux(ok),
                                ![z].mux = IF ok THEN "ok" ELSE "failed",
                                ![z].res = IF ResizeAfterMux(ok) = "idle"
                                           THEN "nil" ELSE "none"]
     ELSE /\ rzSent' = rzSent
          /\ rz' = [rz EXCEPT ![z].pc = "update", ![z].mux = "skipped"]
  /\ UNCHANGED <<rzName, lastSize, rzSized, rzCalls>>
  /\ UNCHANGED <<writeVars, resizeRest>>

\* s.mu.Lock(); s.lastCols = cols; s.lastRows = rows; s.mu.Unlock(); return nil
ResizeUpdate(z) ==
  /\ rz[z].pc = "update"
  /\ lastSize' = rz[z].dims
  /\ rz' = [rz EXCEPT ![z].pc = "idle", ![z].res = "nil"]
  /\ UNCHANGED <<rzName, rzSized, rzSent, rzCalls>>
  /\ UNCHANGED <<writeVars, resizeRest>>

\* clients resizing the terminal while the session's PTY comes and goes
NextResize ==
  \/ WritePTYInstall
  \/ WritePTYClose
  \/ \E z \in Resizers, dims \in Dims : ResizeRead(z, dims)
  \/ \E z \in Resizers : ResizeSetsize(z)
  \/ \E z \in Resizers : ResizeMux(z)
  \/ \E z \in Resizers : ResizeUpdate(z)

\* -------------------------------------------------------------- Store.Save
\* goroutines that call m.save(), Save calls and process crashes in a run
Savers == {"g1", "g2"}
MaxSaves == 3
MaxCrashes == 1
\* the lists of session infos passed to Save
SaveLists == {<<>>, <<"s_1">>, <<"s_1", "s_2">>}

\* st.path and st.path + ".tmp"
StorePath == "sessions.json"
StoreTmp == "sessions.json.tmp"
Absent == <<"absent">>

\* json.MarshalIndent(infos, "", "  "): the list between its brackets
MarshalIndent(infos) == <<"[">> \o infos \o <<"]">>

IdleSaver == [pc |-> "idle", infos |-> <<>>, data |-> <<>>]

StoreInit ==
  /\ disk = [f \in {StorePath, StoreTmp} |-> Absent]
  /\ storeMu = "free"
  /\ sv = [g \in Savers |-> IdleSaver]
  /\ stSaved = {}
  /\ stRuns = [saves |-> 0, crashes |-> 0]

\* a Save that writes the sessions file in place
SaveInPlace(path) == path

\* tmp := st.path + ".tmp": the file Save writes before the rename
SaveTmpOf(path) == StoreTmp

\* st.mu.Lock(); data, err := json.MarshalIndent(...); os.MkdirAll(dir, 0o755)
SaveEnter(g, infos) ==
  /\ storeMu = "free"
  /\ stRuns.saves < MaxSaves
  /\ stRuns' = [stRuns EXCEPT !.saves = @ + 1]
  /\ stSaved' = stSaved \cup {infos}
  /\ \E mkdirOK \in BOOLEAN :
       IF mkdirOK
       THEN /\ storeMu' = g
            /\ sv' = [sv EXCEPT ![g] = [pc |-> "open", infos |-> infos,
                                        data |-> MarshalIndent(infos)]]
       ELSE \* return; the deferred Unlock runs
            /\ storeMu' = "free"
            /\ sv' = [sv EXCEPT ![g] = IdleSaver]
  /\ UNCHANGED disk

\* a call of Save with any list
SaveBegin(g, infos) ==
  /\ sv[g].pc = "idle"
  /\ SaveEnter(g, infos)
  /\ UNCHANGED storeRest

\* os.WriteFile(tmp, ...): OpenFile(O_WRONLY|O_CREATE|O_TRUNC)
SaveOpen(g) ==
  /\ sv[g].pc = "open" /\ storeMu = g
  /\ \E ok \in BOOLEAN :
       IF ok
       THEN /\ disk' = [disk EXCEPT ![SaveTmpOf(StorePath)] = <<>>]
            /\ sv' = [sv EXCEPT ![g].pc = "write"]
            /\ storeMu' = storeMu
       ELSE /\ disk' = disk
            /\ sv' = [sv EXCEPT ![g] = IdleSaver]
            /\ storeMu' = "free"
  /\ UNCHANGED <<stSaved, stRuns>>
  /\ UNCHANGED storeRest

\* os.WriteFile(tmp, ...): f.Write(data) hands the bytes to the file some at
\* a time and may fail part-way (the file keeps what it got); then Close
SaveWrite(g) ==
  /\ sv[g].pc = "write" /\ storeMu = g
  /\ LET f == SaveTmpOf(StorePath)
         have == Len(disk[f])
     IN \/ /\ have < Len(sv[g].data)
           /\ disk' = [disk EXCEPT ![f] = Append(@, sv[g].data[have + 1])]
           /\ UNCHANGED <<sv, storeMu>>
        \/ /\ have < Len(sv[g].data)
           /\ sv' = [sv EXCEPT ![g] = IdleSaver]
           /\ storeMu' = "free"
           /\ disk' = disk
        \/ /\ have = Len(sv[g].data)
           /\ sv' = [sv EXCEPT ![g].pc = "rename"]
           /\ UNCHANGED <<disk, storeMu>>
  /\ UNCHANGED <<stSaved, stRuns>>
  /\ UNCHANGED storeRest

\* os.Rename(tmp, st.path), atomic; on an error os.Remove(tmp); Unlock
SaveRename(g) ==
  /\ sv[g].pc = "rename" /\ storeMu = g
  /\ LET f == SaveTmpOf(StorePath)
     IN \E ok \in BOOLEAN :
          disk' = IF f = StorePath THEN disk
                  ELSE IF ok THEN [disk EXCEPT ![StorePath] = disk[f], ![f] = Absent]
                  ELSE [disk EXCEPT ![f] = Absent]
  /\ sv' = [sv EXCEPT ![g] = IdleSaver]
  /\ storeMu' = "free"
  /\ UNCHANGED <<stSaved, stRuns>>
  /\ UNCHANGED storeRest

\* the process dies at any point (and is started again): its goroutines and
\* their mutex are gone, the files stay as they are
StoreCrash ==
  /\ stRuns.crashes < MaxCrashes
  /\ stRuns' = [stRuns EXCEPT !.crashes = @ + 1]
  /\ sv' = [g \in Savers |-> IdleSaver]
  /\ storeMu' = "free"
  /\ UNCHANGED <<disk, stSaved>>
  /\ UNCHANGED storeRest

NextStore ==
  \/ \E g \in Savers, infos \in SaveLists : SaveBegin(g, infos)
  \/ \E g \in Savers : SaveOpen(g)
  \/ \E g \in Savers : SaveWrite(g)
  \/ \E g \in Savers : SaveRename(g)
  \/ StoreCrash

\* ------------------------------------------------------------- lock order
\* m.mu, and s.mu and s.subMu of every record
ManagerMu == "m.mu"
MuOf(id) == "mu." \o id
SubMuOf(id) == "subMu." \o id
RecordMus == {MuOf(id) : id \in SessIds}
SubMus == {SubMuOf(id) : id \in SessIds}
Mutexes == {ManagerMu} \cup RecordMus \cup SubMus

LockGoroutines == {"h1", "h2", "h3"}

\* one step of an operation on a mutex: function f locks or unlocks x
LockStep(f, x) == [f |-> f, a |-> "L", x |-> x]
UnlockStep(f, x) == [f |-> f, a |-> "U", x |-> x]

\* x.Lock(); ...; x.Unlock() with no other mutex taken in between
Section(f, x) == <<LockStep(f, x), UnlockStep(f, x)>>

\* for _, s := range ids { s.mu.Lock(); ...; s.mu.Unlock() }
RECURSIVE EachRecord(_, _)
EachRecord(f, ids) ==
  IF ids = <<>> THEN <<>>
  ELSE Section(f, MuOf(Head(ids))) \o EachRecord(f, Tail(ids))

\* a loop over the records that releases m.mu before it reads a record
UnderManagerReleased(f, ids) ==
  Section(f, ManagerMu) \o EachRecord(f, ids)

\* m.mu.Lock(); for ... range m.sessions { s.mu.Lock(); ...; s.mu.Unlock() };
\* m.mu.Unlock()
UnderManager(f, ids) ==
  <<LockStep(f, ManagerMu)>> \o EachRecord(f, ids) \o <<UnlockStep(f, ManagerMu)>>

\* Get, List, findChildSessions: m.mu only
GetLocks == Section("Get", ManagerMu)
findChildSessionsLocks == Section("findChildSessions", ManagerMu)

\* save: s.Info() of every record under m.mu
saveLocks(order) == UnderManager("save", order)

\* Create from the duplicate-child check on: the records with the parentId
\* and tool are read under m.mu; an inserting call goes on to startLoops and save
CreateLocks(id, dups, inserts, order) ==
  UnderManager("Create", dups)
    \o (IF inserts THEN Section("startLoops", MuOf(id)) \o saveLocks(order) ELSE <<>>)

FindChildSessionLocks(matches) == UnderManager("FindChildSession", matches)

cleanupOrphanedLocks(order) == UnderManager("cleanupOrphanedTmuxSessions", order)

\* Stop of a session without children, and of one with the children kids
StopLeafLocks(id) ==
  GetLocks \o Section("Stop", MuOf(id)) \o findChildSessionsLocks

RECURSIVE StopKidsLocks(_)
StopKidsLocks(kids) ==
  IF kids = <<>> THEN <<>>
  ELSE Section("Stop", MuOf(Head(kids))) \o StopLeafLocks(Head(kids))
         \o StopKidsLocks(Tail(kids))

StopLocks(id, kids) == StopLeafLocks(id) \o StopKidsLocks(kids)

\* StopAll: the flag, the collection, Stop of the direct sessions, detach of
\* the mux-backed ones
StopAllLocks(order, direct, muxed) ==
  Section("StopAll", ManagerMu) \o UnderManager("StopAll", order)
    \o (IF direct = <<>> THEN <<>> ELSE StopLeafLocks(Head(direct)))
    \o EachRecord("StopAll", muxed)

\* Restart: Get, the guard, cleanupPipePane, the size, the install,
\* startLoops, save
RestartLocks(id, order) ==
  GetLocks \o Section("Restart", MuOf(id)) \o Section("Restart", MuOf(id))
    \o Section("Restart", MuOf(id)) \o Section("Restart", MuOf(id))
    \o Section("startLoops", MuOf(id)) \o saveLocks(order)

\* a completeExit that keeps s.mu until it has saved
completeExitLocksNested(id, order, kids) ==
  <<LockStep("completeExit", MuOf(id))>> \o saveLocks(order)
    \o <<UnlockStep("completeExit", MuOf(id))>>

\* completeExit: the exit state under s.mu, close(done), save, Stop of the
\* running tmux children
completeExitLocks(id, order, kids) ==
  Section("completeExit", MuOf(id)) \o saveLocks(order)
    \o findChildSessionsLocks \o StopKidsLocks(kids)

\* a tick that reads the record while it holds m.mu
tmuxWaitLoopTickNested(id) ==
  UnderManager("tmuxWaitLoop", <<id>>)

\* tmuxWaitLoop, one tick: shuttingDown under m.mu, then the record
tmuxWaitLoopTick(id) ==
  UnderManagerReleased("tmuxWaitLoop", <<id>>)

\* tmuxWaitLoop finalizing: the tick, finalizeTmuxSession, completeExit
tmuxWaitLoopLocks(id, order, kids) ==
  tmuxWaitLoopTick(id) \o Section("finalizeTmuxSession", MuOf(id))
    \o Section("finalizeTmuxSession", MuOf(id)) \o completeExitLocks(id, order, kids)

\* waitLoop: close the PTY under s.mu, completeExit
waitLoopLocks(id, order, kids) ==
  Section("waitLoop", MuOf(id)) \o completeExitLocks(id, order, kids)

\* readLoop: the reader under s.mu; per chunk broadcast, CaptureToolSessionID,
\* CheckYolo (two sections), BroadcastYoloDebug
readLoopLocks(id) ==
  Section("readLoop", MuOf(id)) \o Section("broadcast", SubMuOf(id))
    \o Section("CaptureToolSessionID", MuOf(id))
    \o Section("CheckYolo", MuOf(id)) \o Section("CheckYolo", MuOf(id))
    \o Section("BroadcastYoloDebug", SubMuOf(id))

\* a websocket client: Subscribe, Info, Write / Resize / SetYoloMode, Unsubscribe
clientLocks(id) ==
  Section("Subscribe", SubMuOf(id)) \o Section("Info", MuOf(id))
    \o Section("Write", MuOf(id)) \o Section("Unsubscribe", SubMuOf(id))

\* the iteration orders of a range over m.sessions
RecordOrders == {<<"s_1", "s_2">>, <<"s_2", "s_1">>}
AllRecords == <<"s_1", "s_2">>

\* the lock steps of the operations an API handler can run
HandlerOps ==
  {CreateLocks(id, dups, ins, AllRecords) :
      id \in SessIds, dups \in {<<>>, <<"s_1">>}, ins \in BOOLEAN}
  \cup {FindChildSessionLocks(matches) : matches \in {<<>>, <<"s_2">>}}
  \cup {cleanupOrphanedLocks(AllRecords)}
  \cup {StopLocks("s_1", kids) : kids \in {<<>>, <<"s_2">>}}
  \cup {StopAllLocks(AllRecords, <<"s_1">>, <<"s_2">>)}
  \cup {RestartLocks(id, AllRecords) : id \in SessIds}
  \cup {saveLocks(order) : order \in RecordOrders}

\* ... of the goroutines startLoops starts for a session
LoopOps ==
  {tmuxWaitLoopTick(id) : id \in SessIds}
  \cup {tmuxWaitLoopLocks("s_1", AllRecords, kids) : kids \in {<<>>, <<"s_2">>}}
  \cup {waitLoopLocks("s_2", AllRecords, <<>>)}
  \cup {readLoopLocks(id) : id \in SessIds}

\* ... of a websocket connection, which also stops and lists sessions
ClientOps ==
  {clientLocks(id) : id \in SessIds}
  \cup {StopLocks("s_2", <<>>)}
  \cup {FindChildSessionLocks(AllRecords)}
  \cup {readLoopLocks("s_1")}

LockOps == [h1 |-> HandlerOps, h2 |-> LoopOps, h3 |-> ClientOps]

LockInit ==
  /\ mutex = [x \in Mutexes |-> "free"]
  /\ lg = [g \in LockGoroutines |-> <<>>]

Held(g) == {x \in Mutexes : mutex[x] = g}

\* a goroutine starts an operation
LockBegin(g, o) ==
  /\ lg[g] = <<>>
  /\ lg' = [lg EXCEPT ![g] = o]
  /\ UNCHANGED mutex
  /\ UNCHANGED lockRest

\* x.Lock(): blocks while another goroutine, or the caller itself, holds x
LockAcquire(g) ==
  /\ lg[g] # <<>>
  /\ Head(lg[g]).a = "L"
  /\ mutex[Head(lg[g]).x] = "free"
  /\ mutex' = [mutex EXCEPT ![Head(lg[g]).x] = g]
  /\ lg' = [lg EXCEPT ![g] = Tail(@)]
  /\ UNCHANGED lockRest

\* x.Unlock(); the operation returns after its last step
LockRelease(g) ==
  /\ lg[g] # <<>>
  /\ Head(lg[g]).a = "U"
  /\ mutex' = [mutex EXCEPT ![Head(lg[g]).x] = "free"]
  /\ lg' = [lg EXCEPT ![g] = Tail(@)]
  /\ UNCHANGED lockRest

NextLocks ==
  \/ \E g \in LockGoroutines : \E o \in LockOps[g] : LockBegin(g, o)
  \/ \E g \in LockGoroutines : LockAcquire(g)
  \/ \E g \in LockGoroutines : LockRelease(g)

\* ------------------------------------------------------ buildRestartArgs
\* longest argument list passed to buildRestartArgs
MaxArgs == 3

\* the arguments a caller may pass
RestartArgVals == {"--resume", "-r", "--continue", "-c", "--model", "opus"}

RECURSIVE SeqsUpTo(_, _)
SeqsUpTo(S, n) ==
  IF n = 0 THEN {<<>>}
  ELSE LET shorter == SeqsUpTo(S, n - 1)
       IN shorter \cup {Append(a, x) : a \in {b \in shorter : Len(b) = n - 1}, x \in S}

RestartArgLists == SeqsUpTo(RestartArgVals, MaxArgs)

\* a call of buildRestartArgs("claude", origArgs, toolSessionID) that has not
\* started: orig is the backing array of origArgs, given what the caller passed
ArgsInit(origArgs, toolSessionID) ==
  ba = [pc |-> "make", given |-> origArgs, sid |-> toolSessionID, orig |-> origArgs,
        args |-> <<>>, shared |-> FALSE, i |-> 1, skipNext |-> FALSE, out |-> <<>>]

\* a buildRestartArgs that filters in place: args := origArgs[:0]
buildRestartArgsInPlace == TRUE

\* buildRestartArgs: args := make([]string, 0, len(origArgs)+2), a backing
\* array of its own
buildRestartArgsShares == FALSE

\* append(args, a): the element is written behind the ones args holds; when
\* args shares origArgs' backing array and there is room, it is written there
AppendOrig(b, a) ==
  IF b.shared /\ Len(b.args) < Len(b.orig)
  THEN [b.orig EXCEPT ![Len(b.args) + 1] = a]
  ELSE b.orig

\* args := make(...); skipNext := false
ArgsMake ==
  /\ ba.pc = "make"
  /\ ba' = [ba EXCEPT !.pc = "loop", !.shared = buildRestartArgsShares]
  /\ UNCHANGED argRest

\* one iteration of "for _, a := range origArgs"
ArgsLoop ==
  /\ ba.pc = "loop"
  /\ ba.i <= Len(ba.given)
  /\ LET a == ba.orig[ba.i]
     IN IF ba.skipNext
        THEN ba' = [ba EXCEPT !.skipNext = FALSE, !.i = ba.i + 1]
        ELSE IF a = "--resume" \/ a = "-r"
        THEN ba' = [ba EXCEPT !.skipNext = TRUE, !.i = ba.i + 1]
        ELSE IF a = "--continue" \/ a = "-c"
        THEN ba' = [ba EXCEPT !.i = ba.i + 1]
        ELSE ba' = [ba EXCEPT !.args = Append(ba.args, a), !.orig = AppendOrig(ba, a),
                              !.i = ba.i + 1]
  /\ UNCHANGED argRest

\* return append(args, "--resume", toolSessionID) / append(args, "--continue")
ArgsReturn ==
  /\ ba.pc = "loop"
  /\ ba.i > Len(ba.given)
  /\ LET tail == IF ba.sid # "" THEN <<"--resume", ba.sid>> ELSE <<"--continue">>
         b1 == [ba EXCEPT !.orig = AppendOrig(ba, tail[1]), !.args = Append(ba.args, tail[1])]
         b2 == IF Len(tail) = 2
               THEN [b1 EXCEPT !.orig = AppendOrig(b1, tail[2]),
                               !.args = Append(b1.args, tail[2])]
               ELSE b1
     IN ba' = [b2 EXCEPT !.pc = "done", !.out = b2.args]
  /\ UNCHANGED argRest

NextArgs == ArgsMake \/ ArgsLoop \/ ArgsReturn

\* --------------------------------------------- broadcast, send by send
SendInit == bpend = {}

\* broadcast: s.subMu.Lock(); the range loop will visit the subscribers
BroadcastLock ==
  /\ rlpc = "broadcast"
  /\ subMu = "free"
  /\ subMu' = "readLoop"
  /\ bpend' = subscribers
  /\ rlpc' = "sending"
  /\ UNCHANGED <<scrollback, subscribers, chq, chState, rldata, written, snap, subAt,
                 sent, dropped, afterUnsub>>
  /\ UNCHANGED sendRest

\* broadcast: select { case ch <- data: default: } for one subscriber
BroadcastSend(ch) ==
  /\ rlpc = "sending"
  /\ ch \in bpend
  /\ chq' = [chq EXCEPT ![ch] = SendNB(@, rldata)]
  /\ sent' = [sent EXCEPT ![ch] = IF Len(chq[ch]) < SubCap THEN @ \o rldata ELSE @]
  /\ dropped' = [dropped EXCEPT
                   ![ch] = IF Len(chq[ch]) >= SubCap THEN @ \cup Range(rldata) ELSE @]
  /\ bpend' = bpend \ {ch}
  /\ UNCHANGED <<scrollback, subscribers, chState, subMu, rlpc, rldata, written, snap,
                 subAt, afterUnsub>>
  /\ UNCHANGED sendRest

\* broadcast: the loop is over, the deferred s.subMu.Unlock() runs; readLoop
\* goes back to Read
BroadcastUnlock ==
  /\ rlpc = "sending"
  /\ bpend = {}
  /\ subMu' = "free"
  /\ afterUnsub' = [ch \in Chans |->
                      IF chState[ch] \in {"removed", "closed"}
                      THEN afterUnsub[ch] \cup Range(rldata) ELSE afterUnsub[ch]]
  /\ rlpc' = "read"
  /\ rldata' = <<>>
  /\ UNCHANGED <<scrollback, subscribers, chq, chState, written, snap, subAt, sent,
                 dropped, bpend>>
  /\ UNCHANGED sendRest

NextSend ==
  \/ \E ch \in Chans : SubscribeRegister(ch)
  \/ \E ch \in Chans : SubscribeSnapshot(ch)
  \/ \E ch \in Chans : UnsubscribeDelete(ch)
  \/ \E ch \in Chans : UnsubscribeClose(ch)
  \/ \E ch \in Chans : Receive(ch)
  \/ ReadLoopRead
  \/ BroadcastLock
  \/ \E ch \in Chans : BroadcastSend(ch)
  \/ BroadcastUnlock
  \/ ReadLoopEOF

\* ------------------------------------------------------------ Manager.save
ListInit == mlist = <<>>

\* the lists m.sessions has held on its way to l
SaveListsOf(l) == {SubSeq(l, 1, n) : n \in 0..Len(l)}

\* the ids Create can still insert
FreshIds == {id \in SessIds : id \notin Range(mlist)}

\* the calls of Save that are under way or still to be made by a goroutine
\* that has started an operation
SavesOwed == Cardinality({g \in Savers : sv[g].pc # "idle"})

\* Create: m.mu.Lock(); m.sessions[id] = s; m.mu.Unlock(); startLoops; the
\* call of m.save() is next
ManagerInsert(g) ==
  /\ sv[g].pc = "idle"
  /\ stRuns.saves + SavesOwed < MaxSaves
  /\ \E id \in FreshIds : mlist' = Append(mlist, id)
  /\ sv' = [sv EXCEPT ![g] = [IdleSaver EXCEPT !.pc = "save"]]
  /\ UNCHANGED <<disk, storeMu, stSaved, stRuns>>
  /\ UNCHANGED listRest

\* Manager.save: under m.mu, infos := the Info() of every record; called by
\* Create after its insert, or by SaveAll and completeExit as they are
ManagerSnapshot(g) ==
  /\ sv[g].pc \in {"idle", "save"}
  /\ sv[g].pc = "idle" => stRuns.saves + SavesOwed < MaxSaves
  /\ sv' = [sv EXCEPT ![g] = [IdleSaver EXCEPT !.pc = "held", !.infos = mlist]]
  /\ UNCHANGED <<disk, storeMu, stSaved, stRuns, mlist>>
  /\ UNCHANGED listRest

\* Manager.save: m.store.Save(infos), after m.mu was released
ManagerStoreSave(g) ==
  /\ sv[g].pc = "held"
  /\ SaveEnter(g, sv[g].infos)
  /\ UNCHANGED mlist
  /\ UNCHANGED listRest

NextList ==
  \/ \E g \in Savers : ManagerInsert(g)
  \/ \E g \in Savers : ManagerSnapshot(g)
  \/ \E g \in Savers : ManagerStoreSave(g)
  \/ \E g \in Savers : SaveOpen(g)
  \/ \E g \in Savers : SaveWrite(g)
  \/ \E g \in Savers : SaveRename(g)

\* ------------------------------------------------------------------------
\* the Session under observation is a direct session nobody writes to or
\* resizes yet, nothing was saved yet, no goroutine holds a mutex, and
\* completeExit was never called
NoteInit == exitLog = [id \in SessIds |-> <<>>]

ExtInit ==
  /\ WriteInit
  /\ ResizeInit("")
  /\ StoreInit
  /\ LockInit
  /\ NoteInit
  /\ ArgsInit(<<>>, "")
  /\ SendInit
  /\ ListInit

\* ------------------------------------------------------- specifications
FanOutBase ==
  /\ scrollback = NewRingBuffer(RingSize)
  /\ subscribers = {}
  /\ chq = [ch \in Chans |-> <<>>]
  /\ chState = [ch \in Chans |-> "unused"]
  /\ subMu = "free"
  /\ rlpc = "read"
  /\ rldata = <<>>
  /\ written = <<>>
  /\ snap = [ch \in Chans |-> <<>>]
  /\ subAt = [ch \in Chans |-> 0]
  /\ sent = [ch \in Chans |-> <<>>]
  /\ dropped = [ch \in Chans |-> {}]
  /\ afterUnsub = [ch \in Chans |-> {}]
  /\ YoloInit

FanOutInit == FanOutBase /\ ExtInit

\* goroutines, callers and history before anything ran
IdleInit ==
  /\ shuttingDown = FALSE
  /\ wl = [i \in SessIds |-> [e \in 1..MaxEpochs |-> NoLoop]]
  /\ st = [id |-> "", res |-> "none"]
  /\ sa = [pc |-> "idle", timedOut |-> FALSE, nonTmux |-> {}, mux |-> {}]
  /\ doneCloses = [i \in SessIds |-> [e \in 1..MaxEpochs |-> <<>>]]
  /\ panicked = FALSE
  /\ launched = [i \in SessIds |-> <<>>]

\* a Manager returned by NewManager on a machine without sessions file and
\* without tmux sessions; generateID can return the ids of pool, and the
\* callers of Create are cs, those of Restart are rs
ManagerInit(pool, cs, rs) ==
  /\ IdleInit
  /\ cr = [c \in cs |-> IdleCreator]
  /\ rc = [r \in rs |-> IdleRestarter]
  /\ sessions = EmptyMap
  /\ file = [st |-> "absent", infos |-> EmptyMap]
  /\ tmux = [n \in MuxNames |-> NoMux]
  /\ fifos = {}
  /\ idPool = pool
  /\ nm = [pc |-> "ready", loadOK |-> TRUE, cleaned |-> TRUE, listErr |-> FALSE, killed |-> {},
           removed |-> {}, probed |-> EmptyMap]

SubInit == FanOutInit /\ ManagerInit({}, {}, {})

SubNext ==
  \/ \E ch \in Chans : SubscribeRegister(ch)
  \/ \E ch \in Chans : SubscribeSnapshot(ch)
  \/ \E ch \in Chans : UnsubscribeDelete(ch)
  \/ \E ch \in Chans : UnsubscribeClose(ch)
  \/ \E ch \in Chans : Receive(ch)
  \/ ReadLoopRead
  \/ ReadLoopBroadcast
  \/ ReadLoopEOF

SpecSub == SubInit /\ [][SubNext]_vars

\* the goroutines of the sessions and their environment
LoopNext ==
  \/ \E id \in SessIds : ProcExit(id)
  \/ \E n \in MuxNames : PaneExit(n)
  \/ \E n \in MuxNames : TmuxGone(n)
  \/ \E id \in SessIds : ReadLoopReturn(id)
  \/ \E id \in SessIds, e \in 1..MaxEpochs : DirectWait(id, e)
  \/ \E id \in SessIds, e \in 1..MaxEpochs : DirectAwaitRead(id, e)
  \/ \E id \in SessIds, e \in 1..MaxEpochs : TmuxTickCheck(id, e)
  \/ \E id \in SessIds, e \in 1..MaxEpochs : TmuxTickPoll(id, e)
  \/ \E id \in SessIds, e \in 1..MaxEpochs : TmuxAttachExited(id, e)
  \/ \E id \in SessIds, e \in 1..MaxEpochs : TmuxAttachClose(id, e)
  \/ \E id \in SessIds, e \in 1..MaxEpochs : TmuxAttachQuery(id, e)
  \/ \E id \in SessIds, e \in 1..MaxEpochs : FinalizeTmuxSession(id, e)
  \/ \E id \in SessIds, e \in 1..MaxEpochs : CompleteExitSet(id, e)
  \/ \E id \in SessIds, e \in 1..MaxEpochs : CompleteExitClose(id, e)
  \/ \E id \in SessIds, e \in 1..MaxEpochs : CompleteExitRest(id, e)

\* the Manager's operations on existing sessions
OpNext ==
  \/ \E r \in DOMAIN rc, id \in SessIds : RestartBegin(r, id)
  \/ \E r \in DOMAIN rc : RestartLaunch(r)
  \/ \E r \in DOMAIN rc : RestartInstall(r)
  \/ \E id \in SessIds : Stop(id)

\* shutdown
StopAllNext ==
  \/ StopAllFlag
  \/ StopAllCollect
  \/ StopAllStopDirect
  \/ \E id \in SessIds : StopAllWait(id)
  \/ StopAllDetach

\* Create of a top-level session with no arguments
CreateNext ==
  \/ \E c \in DOMAIN cr : CreateLaunch(c, ToolChoices, {<<>>}, {""})
  \/ \E c \in DOMAIN cr : CreateRegister(c)

\* Create with any of the arguments, for a parent or none
CreateAnyNext ==
  \/ \E c \in DOMAIN cr : CreateLaunch(c, ToolChoices, ArgChoices, {"", "s_0"})
  \/ \E c \in DOMAIN cr : CreateRegister(c)

\* one session: created, exiting, stopped, restarted
Init == FanOutInit /\ ManagerInit({"s_1"}, {"c1"}, Restarters)

Next == CreateNext \/ OpNext \/ LoopNext

Spec == Init /\ [][Next]_vars

\* one session and a shutdown
InitShutdown == FanOutInit /\ ManagerInit({"s_1"}, {"c1"}, {"r1"})

NextShutdown == CreateNext \/ OpNext \/ StopAllNext \/ LoopNext

SpecShutdown == InitShutdown /\ [][NextShutdown]_vars

\* concurrent Create calls
InitCreate == FanOutInit /\ ManagerInit(SessIds, Creators, {})

\* ... while direct sessions exit
DirectExitNext ==
  \/ \E id \in SessIds : ProcExit(id)
  \/ \E id \in SessIds : ReadLoopReturn(id)
  \/ \E id \in SessIds, e \in 1..MaxEpochs : DirectWait(id, e)
  \/ \E id \in SessIds, e \in 1..MaxEpochs : DirectAwaitRead(id, e)
  \/ \E id \in SessIds, e \in 1..MaxEpochs : CompleteExitSet(id, e)
  \/ \E id \in SessIds, e \in 1..MaxEpochs : CompleteExitClose(id, e)
  \/ \E id \in SessIds, e \in 1..MaxEpochs : CompleteExitRest(id, e)

NextCreate == CreateAnyNext \/ DirectExitNext

SpecCreate == InitCreate /\ [][NextCreate]_vars

\* sessions.json entries a previous run may have left for id s_1
StartInfos ==
  {[ID |-> "s_1", Tool |-> tm[1], WorkDir |-> "/w", Args |-> a,
    Status |-> se[1], ExitCode |-> se[2], YoloMode |-> FALSE,
    Internal |-> tm[1] \in internalTools,
    ToolSessionID |-> IF tm[1] = "tmux" THEN "kojo_s_1" ELSE "uuid_s_1",
    ParentID |-> "", TmuxSessionName |-> tm[2], LastOutput |-> se[3],
    LastCols |-> 80, LastRows |-> 24, CreatedAt |-> age] :
     tm \in {<<"claude", "kojo_s_1">>, <<"claude", "">>, <<"tmux", "">>},
     se \in {<<StatusRunning, <<>>, <<>> >>, <<StatusExited, <<0>>, << <<1>> >> >>},
     a \in {<<>>}, age \in {"recent", "old"}}

StartFiles ==
  {[st |-> s, infos |-> EmptyMap] : s \in {"absent", "unreadable", "malformed", "valid"}}
  \cup {[st |-> "valid", infos |-> ("s_1" :> i)] : i \in StartInfos}

\* NewManager on a machine with a sessions file and tmux sessions of a previous run
InitStartup ==
  /\ FanOutInit
  /\ IdleInit
  /\ sessions = EmptyMap
  /\ file \in StartFiles
  /\ \E a \in {"none", "alive", "dead"}, b \in {"none", "alive"} :
       tmux = [n \in MuxNames \cup UserMuxNames |->
                 IF n = "kojo_s_1" /\ a # "none"
                 THEN [st |-> a, code |-> IF a = "dead" THEN 3 ELSE 0, remain |-> TRUE]
                 ELSE IF n = "kojo_old" /\ b # "none"
                 THEN [st |-> b, code |-> 0, remain |-> TRUE]
                 ELSE IF n \in UserMuxNames
                 THEN [st |-> "alive", code |-> 0, remain |-> FALSE]
                 ELSE NoMux]
  /\ fifos \in {{}, {"kojo_s_1", "kojo_old"}}
  /\ idPool = {}
  /\ cr = EmptyMap
  /\ rc = [r \in {"r1"} |-> IdleRestarter]
  /\ nm = [pc |-> "new", loadOK |-> FALSE, cleaned |-> FALSE, listErr |-> FALSE, killed |-> {},
           removed |-> {}, probed |-> EmptyMap]

NextStartup == NewManagerLoad \/ NewManagerCleanup \/ OpNext \/ LoopNext

SpecStartup == InitStartup /\ [][NextStartup]_vars

\* Subscribe has returned for this channel
Subscribed(ch) == chState[ch] \in {"subscribed", "removed", "closed"}

\* bytes whose broadcast has completed
BroadcastDone ==
  {written[i] : i \in 1..(Len(written) - Len(rldata))}

\* C1: no chunk contained in the snapshot returned by Subscribe is also sent
\* on the channel returned by that same Subscribe call.
C1_NoDuplicateOnSubscribe ==
  \A ch \in Chans :
    Subscribed(ch) => Range(snap[ch]) \cap Range(sent[ch]) = {}

\* C2: every byte readLoop consumed is in the snapshot or was sent on the
\* channel, unless the channel was full at the send, the ring had overwritten
\* it before the snapshot, or the channel was unsubscribed before the send.
C2_NoGapOnSubscribe ==
  \A ch \in Chans :
    Subscribed(ch) =>
      \A i \in 1..Len(written) :
        written[i] \in BroadcastDone =>
          \/ written[i] \in Range(snap[ch])
          \/ written[i] \in Range(sent[ch])
          \/ written[i] \in dropped[ch]
          \/ i <= subAt[ch] - RingSize
          \/ written[i] \in afterUnsub[ch]

\* a subscriber got a snapshot holding earlier output and later chunks on its
\* channel, while the ring had already overwritten the oldest byte
C2_Witness ==
  \E ch \in Chans :
    /\ Subscribed(ch)
    /\ Len(snap[ch]) = RingSize
    /\ subAt[ch] > RingSize
    /\ sent[ch] # <<>>
    /\ rlpc = "read"

\* C3: broadcast never blocks the producer; a subscriber whose channel is full
\* loses exactly that chunk (its queue is unchanged) and every subscriber
\* whose channel has room receives the chunk.
C3_BroadcastNeverBlocks ==
  /\ [](rlpc = "broadcast" /\ subMu = "free" => ENABLED ReadLoopBroadcast)
  /\ [][ReadLoopBroadcast =>
          \A ch \in Chans :
            IF ch \in subscribers /\ Len(chq[ch]) < SubCap
            THEN chq'[ch] = Append(chq[ch], rldata)
            ELSE chq'[ch] = chq[ch]]_vars

\* one broadcast was dropped for a full channel and delivered to another
C3_Witness ==
  \E c1, c2 \in Chans :
    /\ c1 # c2
    /\ dropped[c1] # {}
    /\ dropped[c1] \subseteq Range(sent[c2])
    /\ Len(chq[c1]) = SubCap

\* the done channels of a session that have been closed
DoneClosed(id, d) == doneCloses[id][d] # <<>>

\* C4: every done channel is closed at most once, and only by the exit of the
\* epoch it was created for (never on behalf of an earlier epoch).
C4_DoneClosedOncePerEpoch ==
  \A id \in SessIds, d \in 1..MaxEpochs : doneCloses[id][d] \in {<<>>, <<d>>}

\* C5: whenever the session's current done channel is closed, status is
\* exited, exitCode is set and lastOutput has been assigned.
C5_DoneAfterExitState ==
  \A id \in DOMAIN sessions :
    DoneClosed(id, sessions[id].done) =>
      /\ sessions[id].Status = StatusExited
      /\ sessions[id].ExitCode # <<>>
      /\ sessions[id].lastOutput # <<>>

\* C6: in every record, exitCode is present if and only if status = exited.
C6_ExitCodeIffExited ==
  \A id \in DOMAIN sessions :
    sessions[id].ExitCode # <<>> <=> sessions[id].Status = StatusExited

\* the Create calls that returned a record
CreateReturned(c) ==
  cr[c].pc = "done" /\ cr[c].how \in {"inserted", "existing"}

\* C7 as stated: after any successful Create, Get(r.id) has exactly the args
\* passed to that call, also when Create returned the existing duplicate child.
C7_GetReturnsPassedArgs ==
  \A c \in DOMAIN cr :
    CreateReturned(c) =>
      /\ cr[c].ret \in DOMAIN sessions
      /\ sessions[cr[c].ret].Args = cr[c].args

\* C7 amended: a Create that inserts its record stores exactly the args passed
\* (the launch arguments with the injected --session-id are kept apart); a
\* Create that returns because of the duplicate-child check returns the
\* existing record, whose args are those passed to the call that inserted it.
C7_GetReturnsInsertersArgs ==
  \A c \in DOMAIN cr :
    CreateReturned(c) =>
      /\ cr[c].ret \in DOMAIN sessions
      /\ cr[c].how = "inserted" =>
           /\ sessions[cr[c].ret].Args = cr[c].args
           /\ (cr[c].tool = "claude" /\ ~FindSessionID(cr[c].args).has) =>
                /\ launched[cr[c].ret] =
                     cr[c].args \o <<"--session-id", sessions[cr[c].ret].ToolSessionID>>
                /\ launched[cr[c].ret] # sessions[cr[c].ret].Args
      /\ cr[c].how = "existing" =>
           \E c2 \in DOMAIN cr \ {c} :
             /\ cr[c2].pc = "done" /\ cr[c2].how = "inserted"
             /\ cr[c2].ret = cr[c].ret
             /\ sessions[cr[c].ret].Args = cr[c2].args
             /\ sessions[cr[c].ret].ParentID = cr[c].parent
             /\ sessions[cr[c].ret].Tool = cr[c].tool

\* a claude session was inserted with the --session-id injected into its
\* launch arguments, and a second Create for the same parent and tool, with
\* other args, got that record back from the duplicate-child check
C7_Witness ==
  \E c, c2 \in DOMAIN cr :
    /\ CreateReturned(c) /\ CreateReturned(c2)
    /\ cr[c].how = "inserted" /\ cr[c].tool = "claude" /\ cr[c].args = <<>>
    /\ launched[cr[c].ret] # <<>>
    /\ cr[c2].how = "existing" /\ cr[c2].ret = cr[c].ret
    /\ cr[c2].args # cr[c].args

\* what a successful Restart leaves behind besides the preserved fields
RestartStarted(s) ==
  s.Status = StatusRunning /\ s.ExitCode = <<>> /\ s.lastOutput = <<>>

RestartMuxName(b) ==
  IF b.Tool \in userTools /\ b.TmuxSessionName = ""
  THEN tmuxSessionName(b.ID) ELSE b.TmuxSessionName

RestartsInProgress(id) ==
  {r \in DOMAIN rc : rc[r].pc \in {"launch", "install"} /\ rc[r].id = id}

\* C9: restarting is set exactly while one Restart of the session is in
\* progress, never two; while it is set, every other Restart and every Stop of
\* the session returns an error and leaves the record (and its tmux session)
\* unchanged.
C9_RestartExclusive ==
  /\ [](\A id \in DOMAIN sessions :
          /\ Cardinality(RestartsInProgress(id)) <= 1
          /\ sessions[id].restarting <=> RestartsInProgress(id) # {})
  /\ [][\A id \in DOMAIN sessions :
          sessions[id].restarting =>
            /\ \A r \in DOMAIN rc :
                 RestartBegin(r, id) =>
                   /\ rc'[r].pc = "done" /\ rc'[r].how = "busy"
                   /\ sessions' = sessions /\ tmux' = tmux /\ wl' = wl
            /\ Stop(id) =>
                 /\ st'.res = "error"
                 /\ sessions' = sessions /\ tmux' = tmux]_vars

\* one Restart is about to install the new epoch and a concurrent Restart of
\* the same session was turned away
C9_Witness ==
  \E r1, r2 \in DOMAIN rc :
    /\ rc[r1].pc = "install"
    /\ rc[r2].pc = "done" /\ rc[r2].how = "busy"
    /\ rc[r2].id = rc[r1].id
    /\ sessions[rc[r1].id].restarting

\* Store.Load returns no error for this file
LoadSucceeds(f) == f.st \in {"absent", "valid"}

\* C10: NewManager runs cleanupOrphanedTmuxSessions if and only if Store.Load
\* returned no error; an absent file counts as success, an unreadable or
\* malformed one as failure, and then startup kills no tmux session and
\* removes no FIFO.
C10_CleanupIffLoadOK ==
  /\ [][NewManagerLoad =>
          /\ nm'.loadOK = LoadSucceeds(file)
          /\ nm'.pc = IF LoadSucceeds(file) THEN "loaded" ELSE "ready"
          /\ ~LoadSucceeds(file) =>
               tmux' = tmux /\ fifos' = fifos /\ sessions' = sessions]_vars
  /\ [][NewManagerCleanup => nm.loadOK /\ nm'.cleaned]_vars
  /\ [](nm.pc = "ready" =>
          /\ nm.cleaned <=> nm.loadOK
          /\ ~nm.loadOK => nm.killed = {} /\ nm.removed = {})

\* NewManager returned after a parse error: no cleanup, the live kojo_ tmux
\* sessions and their FIFOs are still there
C10_Witness ==
  /\ nm.pc = "ready" /\ ~nm.loadOK /\ ~nm.cleaned
  /\ file.st = "malformed"
  /\ tmux["kojo_old"].st = "alive" /\ tmux["kojo_s_1"].st = "alive"
  /\ {"kojo_old", "kojo_s_1"} \subseteq fifos


\* ------------------------------------------------------------------ C11
\* a session StopAll has to preserve: StopAll has set shuttingDown, the record
\* is running on a tmux session whose pane is alive
StopAllPreserves(id) ==
  /\ shuttingDown
  /\ id \in DOMAIN sessions
  /\ sessions[id].Status = StatusRunning
  /\ sessions[id].TmuxSessionName # ""
  /\ tmux[sessions[id].TmuxSessionName].st = "alive"

\* one session and a shutdown with no Stop and no Restart call
NextStopAll == CreateNext \/ StopAllNext \/ LoopNext

SpecStopAll == InitShutdown /\ [][NextStopAll]_vars

\* a step of StopAll or of a wait loop (not of Stop, Restart, Create or the
\* environment)
StopAllOrLoopStep == sa' # sa \/ wl' # wl

\* C11: no step of StopAll or of a wait loop racing with it kills the tmux
\* session of a running session with a live pane, starts completeExit for it,
\* sets it exited or closes its done channel: the tmux session stays listed,
\* the record stays running and done stays open.
C11_StopAllPreservesMux ==
  [][\A id \in SessIds :
       StopAllPreserves(id) /\ StopAllOrLoopStep =>
         /\ tmux'[sessions[id].TmuxSessionName].st = "alive"
         /\ sessions'[id].Status = StatusRunning
         /\ doneCloses'[id][sessions[id].done] = <<>>
         /\ \A e \in 1..MaxEpochs :
              wl'[id][e].pc \in {"finalize", "ce_set"} => wl[id][e].pc = wl'[id][e].pc]_vars

\* ------------------------------------------------------------------ C12
\* the step on which StopAll returns (its last loop has run)
StopAllReturns == sa.pc # "done" /\ sa'.pc = "done"

\* a session with no tmux session behind it
DirectPTY(s) == s.TmuxSessionName = ""

\* C12: when StopAll returns (none of its 10 s timers having fired), every
\* direct-PTY session in the manager's map is exited and its done channel is
\* closed.
C12_StopAllExitsDirect ==
  [][StopAllReturns /\ ~sa'.timedOut =>
       \A id \in DOMAIN sessions' :
         DirectPTY(sessions'[id]) =>
           /\ sessions'[id].Status = StatusExited
           /\ doneCloses'[id][sessions'[id].done] # <<>>]_vars

\* ------------------------------------------------------------------ C13
\* the entry names a tmux session that exists, tmuxPaneDead reported a live
\* pane and the attach process was started
LoadReattaches(info, T, p) ==
  /\ info.TmuxSessionName # ""
  /\ T[info.TmuxSessionName].st = "alive"
  /\ ~p.paneErr
  /\ p.startOK

\* tmuxPaneDead reported the pane of the entry's tmux session dead
LoadFoundDead(info, T, p) ==
  /\ info.TmuxSessionName # ""
  /\ T[info.TmuxSessionName].st = "dead"
  /\ ~p.paneErr

\* C13: after a successful load, a persisted record is running with an open
\* done channel if and only if its tmux name is set, the tmux session exists,
\* its pane is alive and the attach process could be started; every other
\* loaded record is exited with done closed, and one whose pane was found dead
\* has the exit code tmux reported.
C13_StartupRecovery ==
  [][NewManagerLoad /\ LoadSucceeds(file) =>
       /\ DOMAIN sessions' = DOMAIN StoreLoad(file).infos
       /\ \A i \in DOMAIN sessions' :
            LET info == file.infos[i]
                r == sessions'[i]
                p == nm'.probed[i]
            IN /\ LoadReattaches(info, tmux, p) =>
                    r.Status = StatusRunning /\ doneCloses'[i][r.done] = <<>>
               /\ ~LoadReattaches(info, tmux, p) =>
                    r.Status = StatusExited /\ doneCloses'[i][r.done] # <<>>
               /\ LoadFoundDead(info, tmux, p) =>
                    r.ExitCode = <<tmux[info.TmuxSessionName].code>>]_vars

\* a record persisted as exited with code 0 whose tmux session was found with
\* a live pane: loaded as running, exit code cleared, done open
C13_Witness ==
  /\ nm.pc = "loaded"
  /\ "s_1" \in DOMAIN sessions
  /\ file.infos["s_1"].Status = StatusExited
  /\ sessions["s_1"].Status = StatusRunning
  /\ sessions["s_1"].ExitCode = <<>>
  /\ doneCloses["s_1"][1] = <<>>
  /\ nm.probed["s_1"].startOK

\* ------------------------------------------------------------------ C14
\* the wait loops, with sessions that end because the program in the pane
\* exits or because they are stopped
FamilyLoopNext ==
  \/ \E n \in MuxNames : PaneExit(n)
  \/ \E id \in SessIds : ReadLoopReturn(id)
  \/ \E id \in SessIds, e \in 1..MaxEpochs : DirectWait(id, e)
  \/ \E id \in SessIds, e \in 1..MaxEpochs : DirectAwaitRead(id, e)
  \/ \E id \in SessIds, e \in 1..MaxEpochs : TmuxTickCheck(id, e)
  \/ \E id \in SessIds, e \in 1..MaxEpochs : TmuxTickPoll(id, e)
  \/ \E id \in SessIds, e \in 1..MaxEpochs : TmuxAttachExited(id, e)
  \/ \E id \in SessIds, e \in 1..MaxEpochs : TmuxAttachClose(id, e)
  \/ \E id \in SessIds, e \in 1..MaxEpochs : TmuxAttachQuery(id, e)
  \/ \E id \in SessIds, e \in 1..MaxEpochs : FinalizeTmuxSession(id, e)
  \/ \E id \in SessIds, e \in 1..MaxEpochs : CompleteExitSet(id, e)
  \/ \E id \in SessIds, e \in 1..MaxEpochs : CompleteExitClose(id, e)
  \/ \E id \in SessIds, e \in 1..MaxEpochs : CompleteExitRest(id, e)

\* a parent and a child session: created, stopped, exiting
NextFamily ==
  \/ CreateNext
  \/ \E id \in SessIds : Stop(id)
  \/ FamilyLoopNext

SpecFamily == InitCreate /\ [][NextFamily]_vars

\* the records whose parentId is id and that are running
RunningChildren(id) ==
  {c \in DOMAIN sessions : sessions[c].ParentID = id /\ sessions[c].Status = StatusRunning}

\* a step on which session id is stopped by an accepted Stop, or on which its
\* completeExit reaches the stopping of the children
ParentEnds(id) ==
  \/ Stop(id) /\ ~StopRejected(sessions[id])
  \/ \E e \in 1..MaxEpochs : CompleteExitRest(id, e)

\* the step carried out Stop(c): the process of c has been signalled and the
\* tmux session of an internal tmux tool has been killed
StopIssuedTo(c) ==
  /\ sessions'[c].Cmd # "running"
  /\ sessions[c].Tool = "tmux" => tmux'[sessions[c].ToolSessionID].st = "none"

\* the step left c and its tmux session alone
NotStopped(c) ==
  /\ sessions'[c] = sessions[c]
  /\ sessions[c].TmuxSessionName # "" =>
       tmux'[sessions[c].TmuxSessionName] = tmux[sessions[c].TmuxSessionName]

RingChunks == UNION {[1..n -> ByteVals] : n \in 1..(RingSize + 1)}

\* scrollback.Write(p); written is the history of all bytes written
RingWrite(p) ==
  /\ Len(written) + Len(p) <= MaxRingBytes
  /\ scrollback' = RingBufferWrite(scrollback, p)
  /\ written' = written \o p
  /\ UNCHANGED <<subscribers, chq, chState, subMu, rlpc, rldata, snap, subAt, sent,
                 dropped, afterUnsub>>
  /\ UNCHANGED <<lifeVars, yoloVars, extVars>>

NextRing == \E p \in RingChunks : RingWrite(p)

\* a ring buffer of capacity RingSize under any sequence of Write calls
SpecRing == SubInit /\ [][NextRing]_vars

Min(a, b) == IF a < b THEN a ELSE b

\* the last n elements of s
LastBytes(s, n) == SubSeq(s, Len(s) - n + 1, Len(s))

\* C15: after Write calls carrying T bytes in total into a buffer of capacity
\* N, Bytes() is exactly the last min(T, N) bytes written, in write order; its
\* length is T when T < N and never exceeds N.
C15_RingBytesAreLastWritten ==
  LET T == Len(written)
      out == RingBufferBytes(scrollback)
  IN /\ out = LastBytes(written, Min(T, RingSize))
     /\ Len(out) <= RingSize
     /\ T < RingSize => Len(out) = T

\* more bytes than the capacity were written and the write position is inside
\* the buffer: Bytes() has to rotate
C15_Witness ==
  /\ Len(written) > RingSize
  /\ scrollback.full
  /\ scrollback.w > 0
  /\ written[Len(written)] # written[Len(written) - 1]
  /\ RingBufferBytes(scrollback) = LastBytes(written, RingSize)

\* ------------------------------------------------------------------ C16
\* one session's output checked for approval prompts while clients switch
\* yolo mode
SpecYolo == SubInit /\ [][NextYolo]_vars

\* C16: a CheckYolo call made while yoloMode is false returns a nil approval,
\* whatever the data and the earlier calls were, and leaves the yolo tail as
\* it was.
C16_DisabledReturnsNil ==
  [][\A data \in YoloChunks :
       ReadLoopCheckYolo(data) /\ ~yoloMode =>
         /\ yc'.pc = "idle"
         /\ ~yc'.approval
         /\ yoloTail' = yoloTail
         /\ ytimers' = ytimers]_vars

\* with yolo mode off, a call whose data is a complete prompt has returned nil
\* after an earlier call had returned an approval
C16_Witness ==
  /\ ~yoloMode
  /\ yc.pc = "idle" /\ ~yc.on /\ ~yc.approval /\ yc.prev
  /\ YoloFind(YoloClean(yc.data))

\* ------------------------------------------------------------------ C17
\* C17: when a CheckYolo call returns an approval the yolo tail is empty, and
\* the CheckYolo call following it returns nil unless its own data contains
\* the approval pattern.
C17_NoRematch ==
  /\ [][ReadLoopYoloMatch /\ yc'.approval => yoloTail' = <<>>]_vars
  /\ [][ReadLoopYoloMatch /\ yc.prev /\ ~YoloFind(YoloClean(yc.data)) =>
          ~yc'.approval]_vars

\* the call after an approval was passed the option "1. Yes" alone, with yolo
\* mode on, and returned nil
C17_Witness ==
  /\ yc.pc = "idle" /\ yc.on /\ yc.prev /\ ~yc.approval
  /\ yc.data = <<"y">>
  /\ yoloTail = <<"y">>

\* ------------------------------------------------------------------ C18
\* the last yoloTailSize bytes of t (all of t if it is shorter)
YoloLast(t) ==
  IF Len(t) > yoloTailSize THEN SubSeq(t, Len(t) - yoloTailSize + 1, Len(t)) ELSE t

\* the approval pattern is in the last yoloTailSize bytes of t
YoloContains(t) == YoloFind(YoloClean(YoloLast(t)))

YoloTimerFairness ==
  \A i \in 1..MaxYoloBytes :
    WF_vars(YoloTimerExpire(i)) /\ WF_vars(YoloTimerWrite(i))

SpecYoloTimer == SubInit /\ [][NextYoloTimer]_vars /\ YoloTimerFairness

\* the bytes timer i has handed to Session.Write so far
YoloWrote(i) == IF i \in DOMAIN ytimers THEN ytimers[i].wrote ELSE <<>>

YoloPending(i) == i \in DOMAIN ytimers /\ ytimers[i].st = "pending"

\* one timer per detected approval, and none without one
YoloOneTimerPerApproval ==
  [][/\ (yc.pc = "matching" /\ yc'.pc = "idle" /\ yc'.approval)
          => ytimers' = Append(ytimers, [st |-> "pending", wrote |-> <<>>])
     /\ Len(ytimers') # Len(ytimers)
          => yc.pc = "matching" /\ yc'.pc = "idle" /\ yc'.approval]_vars

\* when the delay expires the callback goes on to write iff yoloMode is on
YoloWriteIffOnAtExpiry ==
  [][\A i \in DOMAIN ytimers :
       (ytimers[i].st = "pending" /\ ytimers'[i].st # "pending")
         => /\ ytimers'[i].wrote = <<>>
            /\ ytimers'[i].st = IF yoloMode THEN "write" ELSE "done"]_vars

\* a callback writes the single byte "\r" once, and only after the recheck
YoloWritesOneCR ==
  [][\A i \in DOMAIN ytimers :
       ytimers'[i].wrote # ytimers[i].wrote
         => /\ ytimers[i].st = "write" /\ ytimers'[i].st = "done"
            /\ ytimers[i].wrote = <<>> /\ ytimers'[i].wrote = <<"\r">>]_vars

\* every callback runs to its end: it has written "\r" once or nothing
YoloTimerCompletes ==
  \A i \in 1..MaxYoloBytes :
    YoloPending(i) ~> (i \in DOMAIN ytimers /\ ytimers[i].st = "done"
                         /\ ytimers[i].wrote \in {<<>>, <<"\r">>})

SpecWrite == SubInit /\ [][NextWrite]_vars /\ WF_vars(WriteStep)

WriteWrote == wlog' # wlog

WriteReturnsClosed == wr'.pc = "idle" /\ wr'.res = "ErrClosed" /\ wlog' = wlog

\* the PTY is read at most maxRetries times per call
WriteBounded == [](wr.i <= maxRetries - 1)

WriteTerminates == (wr.pc # "idle") ~> (wr.pc = "idle" /\ wr.res # "none")

\* the attempt that finds a PTY writes the data to it, unless the PTY is
\* closed before pty.Write runs
WriteWritesOnceInstalled ==
  [][/\ (wr.pc = "check" /\ wPTY # 0 /\ wr' # wr)
          => wr'.pc = "ptywrite" /\ wr'.pty = wPTY
     /\ (wr.pc = "ptywrite" /\ wr.pty \notin wClosed /\ wr' # wr)
          => /\ wlog' = Append(wlog, <<wr.pty, wr.data>>)
             /\ wr'.pc = "idle" /\ wr'.res = "ok"
     /\ WriteWrote => wr.pc = "ptywrite"]_vars

\* PTY nil at the last attempt: the closed-stream error, nothing written
WriteGivesUp ==
  [][(wr.pc = "check" /\ wPTY = 0 /\ wr.i = maxRetries - 1 /\ wr' # wr)
        => WriteReturnsClosed]_vars

\* PTY nil at an earlier attempt: Write waits, and returns the error from
\* the wait, before the remaining attempts, once done is closed
WriteBailsOut ==
  [][/\ (wr.pc = "check" /\ wPTY = 0 /\ wr.i < maxRetries - 1 /\ wr' # wr)
          => wr'.pc = "select" /\ wr'.i = wr.i /\ wlog' = wlog
     /\ (wr.pc = "select" /\ wDone /\ wr' # wr)
          => WriteReturnsClosed /\ wr.i < maxRetries - 1
     /\ (wr.pc = "select" /\ ~wDone /\ wr' # wr)
          => wr'.pc = "check" /\ wr'.i = wr.i + 1 /\ wlog' = wlog]_vars

\* C21: Session.Write always terminates: with the PTY nil it reads the PTY
\* at most maxRetries times, writes at the attempt that finds a PTY, returns
\* the closed-stream error without writing when the PTY is nil at the last
\* attempt, and returns it from the wait as soon as done is closed.
C21_WriteTerminates ==
  /\ WriteBounded
  /\ WriteTerminates
  /\ WriteWritesOnceInstalled
  /\ WriteGivesUp
  /\ WriteBailsOut

\* a call found the PTY nil, waited, and wrote to the PTY installed during
\* the wait; the next call gave up after done was closed
C21_Witness ==
  /\ wr.pc = "idle" /\ wr.calls = 2 /\ wr.res = "ErrClosed" /\ wr.i < maxRetries - 1
  /\ wDone
  /\ Len(wlog) = 1

\* ------------------------------------------------------------------ C22
\* a direct or a mux-backed session whose terminal is resized
InitResize ==
  /\ FanOutBase
  /\ WriteInit
  /\ \E name \in {"", "kojo_s_1"} : ResizeInit(name)
  /\ StoreInit
  /\ LockInit
  /\ NoteInit
  /\ ArgsInit(<<>>, "")
  /\ SendInit
  /\ ListInit
  /\ ManagerInit({}, {}, {})

SpecResize == InitResize /\ [][NextResize]_vars

ResizeFailed(c) ==
  c.ptmx = 0 \/ (c.pc = "idle" /\ c.res = "err") \/ c.mux = "failed"

\* a call that ends, or has ended, in a failure does not change the state
ResizeFailureKeepsState ==
  [][\A z \in Resizers :
       (rz'[z] # rz[z] /\ ResizeFailed(rz'[z])) => lastSize' = lastSize]_vars

\* the state changes only at the end of a call whose every step succeeded
ResizeUpdateAfterSuccess ==
  [][lastSize' # lastSize =>
       \E z \in Resizers :
         /\ rz[z].pc = "update" /\ rz'[z].pc = "idle" /\ rz'[z].res = "nil"
         /\ lastSize' = rz[z].dims
         /\ rz[z].ptmx # 0 /\ rz[z].sizeOK
         /\ rz[z].mux \in {"ok", "skipped"}
         /\ rz[z].mux = "skipped" => rzName = "" \/ rz[z].dims = rz[z].prev]_vars

\* hence the state of a mux-backed session is a size the mux accepted, and
\* a size the mux refused is not deduplicated: a call for it that passes
\* Setsize and read a different state sends it to the mux again
ResizeStateWasSent ==
  [](rzName # "" /\ lastSize # NoSize =>
       \E k \in DOMAIN rzSent : rzSent[k] = [dims |-> lastSize, ok |-> TRUE])

ResizeSendsAgain ==
  [][\A z \in Resizers :
       (rz[z].pc = "mux" /\ rz'[z] # rz[z] /\ rzName # "" /\ rz[z].dims # rz[z].prev)
         => Len(rzSent') = Len(rzSent) + 1
            /\ rzSent'[Len(rzSent')].dims = rz[z].dims]_vars

\* C22: Resize updates lastCols/lastRows only after every resize step
\* succeeded; a call that fails (PTY nil, Setsize error, mux resize error
\* with changed dimensions) leaves them as they were, so the same
\* dimensions are sent to the mux again by the next Resize.
C22_DedupAfterSuccess ==
  /\ ResizeFailureKeepsState
  /\ ResizeUpdateAfterSuccess
  /\ ResizeStateWasSent
  /\ ResizeSendsAgain

\* the mux refused a size, the state kept its value, and the next Resize
\* sent the same size again
C22_Witness ==
  /\ Len(rzSent) = 2
  /\ rzSent[1].dims = rzSent[2].dims
  /\ ~rzSent[1].ok /\ rzSent[2].ok
  /\ lastSize = rzSent[2].dims
  /\ rzCalls = 2

\* ------------------------------------------------------------------ C23
\* the running records with the parent and tool of record s
RunningTwins(S, s) ==
  {e \in DOMAIN S : /\ S[e].ParentID = s.ParentID
                    /\ S[e].Tool = s.Tool
                    /\ S[e].Status = StatusRunning}

\* no two running records share a non-empty parentId and a tool
OneRunningChildPerTool ==
  \A a, b \in DOMAIN sessions :
    (/\ sessions[a].ParentID # ""
     /\ sessions[a].Status = StatusRunning
     /\ b \in RunningTwins(sessions, sessions[a])) => a = b

\* Create call c passes its check-and-register section on this step
CreateRegisters(c) == cr[c].pc = "register" /\ cr'[c].pc = "done"

\* what the call had started is gone: no FIFO and no mux session of its id
CreateTornDown(s) ==
  /\ tmuxSessionName(s.ID) \notin fifos'
  /\ tmux'[tmuxSessionName(s.ID)].st # "alive"

\* C23: of the concurrent Create calls with the same non-empty parentId and
\* tool at most one inserts a record (no two running records share them);
\* a call that finds a running record with its (parentId, tool) inserts
\* nothing, tears down the pipe-pane and the mux session it started, and
\* returns the existing record.
C23_DuplicateChildDiscarded ==
  /\ [](OneRunningChildPerTool)
  /\ [][\A c \in DOMAIN cr :
          CreateRegisters(c) =>
            LET s == cr[c].pend[1]
            IN IF s.ParentID # "" /\ RunningTwins(sessions, s) # {}
               THEN /\ sessions' = sessions
                    /\ cr'[c].how = "existing"
                    /\ cr'[c].ret \in RunningTwins(sessions, s)
                    /\ CreateTornDown(s)
               ELSE /\ DOMAIN sessions' = DOMAIN sessions \cup {s.ID}
                    /\ cr'[c].how = "inserted" /\ cr'[c].ret = s.ID]_vars

\* ------------------------------------------------------------------ C24
SpecStore == SubInit /\ [][NextStore]_vars

\* C24: at every moment, also inside a Save and after a crash inside it,
\* the sessions file is absent or holds the complete marshalled list of one
\* Save call made before, never a part of one.
C24_SaveAtomic ==
  disk[StorePath] = Absent
    \/ \E infos \in stSaved : disk[StorePath] = MarshalIndent(infos)

\* a Save died after writing a part of its list to the temporary file,
\* while the sessions file holds the list of an earlier Save
C24_Witness ==
  /\ stRuns.crashes = 1
  /\ disk[StorePath] = MarshalIndent(<<"s_1">>)
  /\ disk[StoreTmp] = <<"[", "s_1">>

\* ------------------------------------------------------------------ C25
\* Manager.Stop(id) for an id that m.Get does not find: "session not found"
StopUnknown(id) ==
  /\ ~panicked
  /\ nm.pc = "ready"
  /\ id \notin DOMAIN sessions
  /\ st' = [id |-> id, res |-> "error"]
  /\ UNCHANGED <<sessions, shuttingDown, file, tmux, fifos, idPool, wl, cr, rc, sa,
                 doneCloses, panicked, nm, launched>>
  /\ UNCHANGED <<subVars, yoloVars, extVars>>

\* terminal tabs (tool tmux) with or without a parent: created, exiting,
\* restarted and stopped
InitStop == FanOutInit /\ ManagerInit(SessIds, Creators, {"r1"})

NextStop ==
  \/ \E c \in DOMAIN cr : CreateLaunch(c, {"tmux"}, {<<>>}, {""})
  \/ \E c \in DOMAIN cr : CreateRegister(c)
  \/ OpNext
  \/ \E id \in SessIds : StopUnknown(id)
  \/ DirectExitNext

SpecStop == InitStop /\ [][NextStop]_vars

\* the cases in which Stop must refuse
StopMustReject(id) ==
  \/ id \notin DOMAIN sessions
  \/ sessions[id].Status # StatusRunning
  \/ sessions[id].restarting

\* C25: Stop(id) returns an error when id is unknown, the session is not
\* running or it is restarting; such a Stop kills no mux session, signals no
\* process, stops no child and leaves every record unchanged.
C25_RejectedStopDoesNothing ==
  [][\A id \in SessIds :
       ((Stop(id) \/ StopUnknown(id)) /\ StopMustReject(id))
         => /\ st' = [id |-> id, res |-> "error"]
            /\ sessions' = sessions
            /\ tmux' = tmux]_vars

\* a Stop of a session that is being restarted was refused while a child of
\* that session is running in its tmux session
C25_Witness ==
  /\ st.res = "error"
  /\ st.id \in DOMAIN sessions
  /\ sessions[st.id].restarting
  /\ \E c \in DOMAIN sessions :
       /\ sessions[c].ParentID = st.id
       /\ sessions[c].Status = StatusRunning
       /\ tmux[sessions[c].ToolSessionID].st = "alive"

\* ------------------------------------------------------------------ C26
\* goroutines running the operations of the Manager and of the Sessions
SpecLocks == SubInit /\ [][NextLocks]_vars

\* goroutine g acquires mutex x on this step
Acquires(g, x) ==
  /\ lg[g] # <<>>
  /\ Head(lg[g]).a = "L" /\ Head(lg[g]).x = x
  /\ mutex[x] = "free" /\ mutex'[x] = g

\* the functions that read records while they hold m.mu
NestingFunctions ==
  {"Create", "FindChildSession", "StopAll", "save", "cleanupOrphanedTmuxSessions"}

\* C26 as stated: no goroutine acquires a record mutex while it holds the
\* manager mutex.
C26_ManagerNeverHeldForRecord ==
  [][\A g \in LockGoroutines, x \in RecordMus :
       Acquires(g, x) => mutex[ManagerMu] # g]_vars

\* C26 amended: no goroutine acquires the manager mutex while it holds a
\* record mutex; a record mutex is acquired under the manager mutex by
\* Create's duplicate-child check, FindChildSession, StopAll's collection,
\* save and the orphan cleanup, and by no other function: the wait loops,
\* Stop, Restart and completeExit never hold the two together.
C26_RecordNeverHeldForManager ==
  [][\A g \in LockGoroutines :
       /\ Acquires(g, ManagerMu) => Held(g) \cap RecordMus = {}
       /\ \A x \in RecordMus :
            (Acquires(g, x) /\ mutex[ManagerMu] = g)
              => Head(lg[g]).f \in NestingFunctions]_vars

\* save reads a record (Info) under the manager mutex while a wait loop
\* waits for the manager mutex
C26_Witness ==
  \E g, h \in LockGoroutines, id \in SessIds :
    /\ mutex[ManagerMu] = g /\ mutex[MuOf(id)] = g
    /\ Head(lg[g]) = UnlockStep("save", MuOf(id))
    /\ lg[h] # <<>>
    /\ Head(lg[h]) = LockStep("tmuxWaitLoop", ManagerMu)

\* ------------------------------------------------------------------ C27
\* g is blocked in Lock on a mutex that h holds
WaitsFor(g, h) ==
  /\ lg[g] # <<>>
  /\ Head(lg[g]).a = "L"
  /\ mutex[Head(lg[g]).x] = h

\* no set of goroutines in which each waits for a mutex another one of the
\* set (or itself) holds
NoWaitCycle ==
  \A D \in SUBSET LockGoroutines :
    D # {} => \E g \in D : \A h \in D : ~WaitsFor(g, h)

\* C27: no goroutine acquires the manager mutex while holding a record or a
\* subscribers mutex, none acquires a record mutex while holding a
\* subscribers mutex, and no interleaving of the operations reaches a state
\* in which goroutines wait for each other's mutexes in a cycle.
C27_LockOrderNoDeadlock ==
  /\ [][\A g \in LockGoroutines :
          /\ Acquires(g, ManagerMu) => Held(g) \cap (RecordMus \cup SubMus) = {}
          /\ \A x \in RecordMus : Acquires(g, x) => Held(g) \cap SubMus = {}]_vars
  /\ [](NoWaitCycle)

\* a chain without a cycle: one goroutine waits for the manager mutex, whose
\* holder waits for a record mutex, whose holder is running
C27_Witness ==
  \E g1, g2, g3 \in LockGoroutines :
    /\ WaitsFor(g1, g2) /\ Head(lg[g1]).x = ManagerMu
    /\ WaitsFor(g2, g3) /\ Head(lg[g2]).x \in RecordMus
    /\ g3 \notin {g1, g2}

\* ------------------------------------------------------------------ C28
\* the mux session the wait loop of a record polls is there and its pane is alive
PaneAlive(id) ==
  /\ id \in DOMAIN sessions
  /\ tmux[sessions[id].TmuxSessionName].st = "alive"

\* a ticker poll of wait loop (id, e) that goes back to the select
PollContinues(id, e) == wl[id][e].pc = "tick" /\ wl'[id][e].pc = "select"

\* a ticker poll of wait loop (id, e) that finalizes the session
PollFinalizes(id, e) == wl[id][e].pc = "tick" /\ wl'[id][e].pc = "finalize"

\* a poll that continues either answered, and the count is 0 again, or failed,
\* and the count is one more and still below the threshold
PollCounts(id, e) ==
  PollContinues(id, e) =>
    \/ wl'[id][e].errs = 0
    \/ /\ wl'[id][e].errs = wl[id][e].errs + 1
       /\ wl'[id][e].errs < maxConsecutiveErrors
       /\ id \in DOMAIN sessions
       /\ tmux[sessions[id].TmuxSessionName].st # "none"

\* nothing but a ticker poll of the loop itself changes the count of a loop that
\* goes on polling, the attach-exited branch included
OnlyPollsCount(id, e) ==
  wl[id][e].pc # "tick" /\ wl'[id][e].pc \in {"select", "tick", "ae_close", "ae_query"}
    /\ wl[id][e].pc # "none"
    => wl'[id][e].errs = wl[id][e].errs

\* a poll that finalizes a session whose mux session exists with a live pane is
\* the poll of the error that reaches the threshold: it kills the mux session
\* and finalizes with exit code 1
FinalizeOnErrors(id, e) ==
  PollFinalizes(id, e) /\ PaneAlive(id) =>
    /\ wl[id][e].errs + 1 = maxConsecutiveErrors
    /\ wl'[id][e].errs = maxConsecutiveErrors
    /\ wl'[id][e].code = 1
    /\ tmux'[sessions[id].TmuxSessionName].st = "none"

\* the exit code a loop finalizes with is the one completeExit records
FinalizeCodeRecorded(id, e) ==
  /\ wl[id][e].pc = "finalize" /\ wl'[id][e].pc # "finalize"
       => wl'[id][e].pc = "ce_set" /\ wl'[id][e].code = wl[id][e].code
  /\ wl[id][e].pc = "ce_set" /\ wl'[id][e].pc # "ce_set"
       => /\ sessions'[id].Status = StatusExited
          /\ sessions'[id].ExitCode = <<wl[id][e].code>>

\* C28: tmuxWaitLoop counts the consecutive ticker polls in which the mux session
\* exists and the pane query failed; a poll that answers sets the count to 0, the
\* count stays below the threshold while the loop goes on, and a session whose
\* pane is alive is finalized by a poll only when that poll's error reaches the
\* threshold, which kills the mux session and makes the session exit with code 1
C28_FinalizeAfterConsecutiveErrors ==
  [][\A id \in SessIds : \A e \in DOMAIN wl[id] :
       /\ PollCounts(id, e)
       /\ OnlyPollsCount(id, e)
       /\ FinalizeOnErrors(id, e)
       /\ FinalizeCodeRecorded(id, e)]_vars

\* a loop has counted errors up to the threshold, killed the mux session and is
\* finalizing the still running session with exit code 1
C28_Witness ==
  \E id \in DOMAIN sessions : \E e \in DOMAIN wl[id] :
    /\ wl[id][e].pc = "finalize"
    /\ wl[id][e].errs = maxConsecutiveErrors
    /\ wl[id][e].code = 1
    /\ sessions[id].Status = StatusRunning
    /\ tmux[sessions[id].TmuxSessionName].st = "none"

\* ------------------------------------------------------------------ C29
\* the steps of the wait loop of (id, e) that the Go scheduler and the 500 ms
\* ticker run without waiting for anything unbounded: the ticker case and its
\* poll, the attach-exited case once it was entered, finalizeTmuxSession (its
\* waits for readLoop and for the attach process end on timers) and completeExit
WaitLoopStep(id, e) ==
  \/ TmuxTickCheck(id, e)
  \/ TmuxTickPoll(id, e)
  \/ TmuxAttachClose(id, e)
  \/ TmuxAttachQuery(id, e)
  \/ FinalizeTmuxSession(id, e)
  \/ CompleteExitSet(id, e)
  \/ CompleteExitClose(id, e)
  \/ CompleteExitRest(id, e)

WaitLoopFairness ==
  \A id \in SessIds : \A e \in 1..MaxEpochs : WF_vars(WaitLoopStep(id, e))

\* one session that is created, stopped, restarted and watched by its loops,
\* in a manager that is never shut down
SpecExit == InitShutdown /\ [][Next]_vars /\ WaitLoopFairness

\* the wait loop of (id, e) is polling
Polling(id, e) == wl[id][e].pc \in {"select", "tick", "ae_close", "ae_query"}

\* the mux session of the running session id is gone while its loop e is polling
MuxGoneWhileRunning(id, e) ==
  /\ ~shuttingDown
  /\ id \in DOMAIN sessions
  /\ Polling(id, e)
  /\ sessions[id].Status = StatusRunning
  /\ sessions[id].TmuxSessionName # ""
  /\ tmux[sessions[id].TmuxSessionName].st = "none"

\* the session has exited with exit code 1 and its done channel is closed
ExitedWithOne(id) ==
  /\ id \in DOMAIN sessions
  /\ sessions[id].Status = StatusExited
  /\ sessions[id].ExitCode = <<1>>
  /\ DoneClosed(id, sessions[id].done)

\* C29: once the mux session of a running mux-backed session is gone and the
\* manager is not shutting down, the session eventually is exited with exit
\* code 1 and its done channel closed, whatever readLoop and the attach
\* process do
C29_MuxGoneLeadsToExit ==
  \A id \in SessIds : \A e \in 1..MaxEpochs :
    MuxGoneWhileRunning(id, e) ~> ExitedWithOne(id)

\* ------------------------------------------------------------------ C30
\* wait loop (id, e) takes the step in which reattachTmux returns nil
Reattached(id, e) == wl[id][e].pc = "ae_query" /\ wl'[id][e].pc = "select"

\* a readLoop of the record is running and its readDone is open
LiveReadLoop(s) == s.readLoop /\ s.readDone = "open"

\* C30: after every reattachTmux that returns success for a running session a
\* live readLoop exists for the session, whether pipe-pane was kept, was set up
\* again, or could not be set up
C30_ReattachLeavesReadLoop ==
  [][\A id \in SessIds : \A e \in 1..MaxEpochs :
       (Reattached(id, e) /\ sessions'[id].Status = StatusRunning)
         => LiveReadLoop(sessions'[id])]_vars


\* ------------------------------------------------------------------ C31
\* pipe-pane is active for the record and its readLoop has not exited
PipeActive(s) == s.rawPipe /\ s.readDone = "open"

\* what a reattach that finds pipe-pane active does: a new attach PTY and
\* command, a new drainLoop, and nothing else
ReattachKeepsReader(id, e) ==
  /\ wl'[id][e].spawned = {"drainLoop"}
  /\ sessions'[id].PTY = "open"
  /\ sessions'[id].Cmd = "running"
  /\ sessions'[id].rawPipe
  /\ sessions'[id].readDone = sessions[id].readDone
  /\ sessions'[id].readLoop = sessions[id].readLoop
  /\ fifos' = fifos

\* C31: a reattachTmux that runs while pipe-pane is active and the existing
\* readLoop has not exited starts no second readLoop and replaces neither
\* rawPipe nor readDone; it installs a new attach PTY and command and starts a
\* new drainLoop, so the readLoop that was there stays the only one
C31_ReattachKeepsReadLoop ==
  [][\A id \in SessIds : \A e \in 1..MaxEpochs :
       (Reattached(id, e) /\ PipeActive(sessions[id]))
         => ReattachKeepsReader(id, e)]_vars

\* a loop has reattached a session whose readLoop was running and went on
\* running on the pipe it had
C31_Witness ==
  \E id \in DOMAIN sessions : \E e \in 1..MaxEpochs :
    /\ wl[id][e].pc = "select"
    /\ wl[id][e].spawned = {"drainLoop"}
    /\ sessions[id].readLoop
    /\ PipeActive(sessions[id])
    /\ sessions[id].PTY = "open"

\* ------------------------------------------------------------------ C32
\* the live tmux sessions named kojo_* that back no running record
Orphans(S, T) ==
  {n \in DOMAIN T : /\ T[n].st # "none"
                    /\ hasKojoPrefix(n)
                    /\ ~\E i \in DOMAIN S : /\ S[i].TmuxSessionName = n
                                            /\ S[i].Status = StatusRunning}

\* exactly the tmux sessions in X are killed by the step
KillsExactly(X) ==
  tmux' = [n \in DOMAIN tmux |-> IF n \in X THEN NoMux ELSE tmux[n]]

\* C32 as stated: every orphan cleanup after a successful load kills exactly
\* the orphans
C32_CleanupKillsExactlyOrphans ==
  [][NewManagerCleanup => KillsExactly(Orphans(sessions, tmux))]_vars

\* C32: an orphan cleanup (it runs after a successful load only) whose listing
\* of the tmux sessions succeeded kills exactly the live tmux sessions named
\* kojo_* that back no record running at that moment, those of entries the
\* retention filter dropped included, and never the tmux session of a record
\* that is running; a cleanup whose listing failed kills nothing
C32_CleanupKillsOrphansWhenListed ==
  [][NewManagerCleanup =>
       /\ nm.loadOK
       /\ IF nm'.listErr THEN tmux' = tmux
          ELSE KillsExactly(Orphans(sessions, tmux))
       /\ \A i \in DOMAIN sessions :
            sessions[i].Status = StatusRunning /\ sessions[i].TmuxSessionName # ""
              => tmux'[sessions[i].TmuxSessionName] = tmux[sessions[i].TmuxSessionName]]_vars

\* startup has reattached s_1 and killed the orphan kojo_old, and the user's
\* own tmux session is still there
C32_Witness ==
  /\ nm.pc = "ready" /\ nm.loadOK /\ nm.cleaned /\ ~nm.listErr
  /\ "s_1" \in DOMAIN sessions
  /\ sessions["s_1"].Status = StatusRunning
  /\ tmux["kojo_s_1"].st = "alive"
  /\ "kojo_old" \in nm.killed
  /\ tmux["kojo_old"].st = "none"
  /\ tmux["main"].st = "alive"

\* the tmux session of an entry dropped by the retention filter was killed
C32_WitnessRetention ==
  /\ nm.pc = "ready" /\ ~nm.listErr
  /\ file.st = "valid" /\ "s_1" \in DOMAIN file.infos
  /\ file.infos["s_1"].CreatedAt = "old"
  /\ "kojo_s_1" \in nm.killed

\* ------------------------------------------------------------------ C33
\* a manager that starts on the files of a previous run, creates, stops and
\* restarts one session and is shut down
InitNotify ==
  /\ InitStartup
  /\ file.st \in {"absent", "valid"}
  /\ \A i \in DOMAIN file.infos :
       /\ file.infos[i].CreatedAt = "recent"
       /\ file.infos[i].TmuxSessionName # "" \/ file.infos[i].Tool = "tmux"
  /\ tmux["kojo_old"].st = "none"
  /\ fifos = {}

NextNotify == NewManagerLoad \/ NewManagerCleanup \/ OpNext \/ StopAllNext \/ LoopNext

SpecNotify == InitNotify /\ [][NextNotify]_vars

\* the positions of the events ev of epoch e in the log of id
ExitEvents(id, ev, e) ==
  {k \in DOMAIN exitLog[id] : exitLog[id][k] = [ev |-> ev, e |-> e]}

\* every call of OnSessionExit comes after the same completeExit set
\* status = exited on a running record and closed done
NotifiedAfterExit(id, e) ==
  \A k \in ExitEvents(id, "called", e) :
    \E i \in ExitEvents(id, "exited", e) : \E j \in ExitEvents(id, "closed", e) :
      i < j /\ j < k

\* at most one exit and one call per epoch, and completeExit never runs on a
\* record that is not running
NotifiedOnce(id, e) ==
  /\ Cardinality(ExitEvents(id, "called", e)) <= 1
  /\ Cardinality(ExitEvents(id, "exited", e)) <= 1
  /\ ExitEvents(id, "again", e) = {}

\* a completeExit that is over has notified
NotifiedWhenOver(id, e) ==
  ExitEvents(id, "exited", e) # {} /\ wl[id][e].pc = "ret"
    => ExitEvents(id, "called", e) # {}

\* a record that is exited or detached without a completeExit has no call
NotifiedOnlyOnExit(id) ==
  Len(exitLog[id]) > 0 => id \in DOMAIN sessions /\ exitLog[id][1].ev = "exited"

C33_WitnessDetached ==
  \E id \in DOMAIN sessions :
    /\ sa.pc = "done"
    /\ sessions[id].Status = StatusRunning
    /\ wl[id][1].pc = "ret"
    /\ exitLog[id] = <<>>

\* under the fairness of the wait loops a transition from running to exited
\* is followed by its call unless the program has panicked (SpecExit)
C33_CalledUnlessPanicked ==
  \A id \in SessIds : \A e \in 1..MaxEpochs :
    (ExitEvents(id, "exited", e) # {}) ~> (ExitEvents(id, "called", e) # {} \/ panicked)

\* ------------------------------------------------------------------ C34
\* caller c's Create returns an error in this step
CreateFails(c) == cr[c].pc = "idle" /\ cr'[c].pc = "done" /\ cr'[c].how = "error"

\* C34: a Create that returns an error has added no record and has left no
\* tmux session and no pipe-pane FIFO behind
C34_FailedCreateLeavesNothing ==
  [][\A c \in DOMAIN cr :
       CreateFails(c) => sessions' = sessions /\ tmux' = tmux /\ fifos' = fifos]_vars

\* ------------------------------------------------------------------ C35
\* a call of buildRestartArgs for tool claude with any argument list of up
\* to MaxArgs elements and a known or unknown tool session id
InitArgs ==
  /\ FanOutBase
  /\ WriteInit
  /\ ResizeInit("")
  /\ StoreInit
  /\ LockInit
  /\ NoteInit
  /\ SendInit
  /\ ListInit
  /\ \E a \in RestartArgLists, sid \in {"", "u1"} : ArgsInit(a, sid)
  /\ ManagerInit({}, {}, {})

SpecArgs == InitArgs /\ [][NextArgs]_vars

ResumeFlags == {"--resume", "-r"}

ContinueFlags == {"--continue", "-c"}

\* a[i] is a flag of one of the two kinds, or follows a resume flag
RemovedEvery(a, i) ==
  \/ a[i] \in ResumeFlags \cup ContinueFlags
  \/ i > 1 /\ a[i - 1] \in ResumeFlags

\* a[i] is read as the value of the resume flag in front of it: that flag was
\* not itself read as a value
RECURSIVE TakenAsValue(_, _)
TakenAsValue(a, i) ==
  i > 1 /\ a[i - 1] \in ResumeFlags /\ ~TakenAsValue(a, i - 1)

\* reading left to right: a[i] is the value of a resume flag, or a flag
RemovedInOrder(a, i) ==
  \/ TakenAsValue(a, i)
  \/ a[i] \in ResumeFlags \cup ContinueFlags

\* the elements of a at the indices in I, in order, up to index n
RECURSIVE ElementsAt(_, _, _)
ElementsAt(a, I, n) ==
  IF n = 0 THEN <<>>
  ELSE IF n \in I THEN Append(ElementsAt(a, I, n - 1), a[n])
  ELSE ElementsAt(a, I, n - 1)

ResumeTail(sid) == IF sid # "" THEN <<"--resume", sid>> ELSE <<"--continue">>

ArgsReturned == ba.pc = "done"

ArgsLoopIsBuildRestartArgs ==
  ArgsReturned => ba.out = buildRestartArgs("claude", ba.given, ba.sid)

C35_WitnessTrailingFlag ==
  /\ ArgsReturned
  /\ Len(ba.given) > 0
  /\ ba.given[Len(ba.given)] \in ResumeFlags
  /\ ba.sid = ""

\* ------------------------------------------------------------------ C36
\* StopAll has returned
StopAllReturned == sa.pc = "done"

\* the record's attach process is alive, its attach PTY is open or its
\* pipe-pane is active
Attached(s) == s.Cmd = "running" \/ s.PTY # "nil" \/ s.rawPipe

\* C36: after StopAll has returned, no tmux-backed session it detached has a
\* live attach process, an open attach PTY or an active pipe-pane, whatever a
\* tmuxWaitLoop running beside StopAll does.
C36_StopAllLeavesDetached ==
  StopAllReturned =>
    \A id \in sa.mux : id \in DOMAIN sessions => ~Attached(sessions[id])

\* ------------------------------------------------------------------ C37
\* Subscribe, Unsubscribe and the receivers beside a readLoop whose broadcast
\* sends to one subscriber at a time
SpecSend == SubInit /\ [][NextSend]_vars

\* broadcast sends, or tries to send, to ch
SendsTo(ch) == ch \in bpend /\ ch \notin bpend'

\* C37: broadcast never sends to a channel that Unsubscribe has closed, in
\* any interleaving of broadcast with Unsubscribe: a channel is out of the
\* subscriber table, removed under s.subMu, before it is closed.
C37_NoSendOnClosed ==
  [][\A ch \in Chans : SendsTo(ch) => chState[ch] # "closed"]_vars

\* a closed channel is in no subscriber table and in no running range loop
ClosedIsRemoved ==
  \A ch \in Chans : chState[ch] = "closed" => ch \notin subscribers /\ ch \notin bpend

\* a broadcast is sending to a subscriber while another channel, removed
\* before the broadcast took the lock, is closed
C37_Witness ==
  /\ rlpc = "sending"
  /\ \E ch \in Chans :
       /\ chState[ch] = "closed"
       /\ \E other \in Chans \ {ch} : other \in subscribers /\ sent[other] # <<>>

\* ------------------------------------------------------------------ C38
\* goroutines that insert a record and save, or only save, while the Store
\* writes the file of each call
InitList ==
  /\ FanOutBase
  /\ WriteInit
  /\ ResizeInit("")
  /\ StoreInit
  /\ LockInit
  /\ NoteInit
  /\ ArgsInit(<<>>, "")
  /\ SendInit
  /\ ListInit
  /\ ManagerInit({}, {}, {})

SpecList == InitList /\ [][NextList]_vars

\* the sessions file holds the list infos
FileHolds(d, infos) == d[StorePath] = MarshalIndent(infos)

\* a is the list an earlier snapshot took, b the list of a later one: records
\* are only inserted
EarlierSnapshot(a, b) == Len(a) < Len(b) /\ SubSeq(b, 1, Len(a)) = a

\* every operation that calls Manager.save has returned
SavesReturned == \A g \in Savers : sv[g].pc = "idle"

\* C38: a save that took its snapshot earlier never overwrites the sessions
\* file written from a later snapshot, in any interleaving of the operations
\* that call Manager.save, so that the file holds the manager's latest list
\* once all of them have returned.
C38_EarlierSnapshotNeverOverwrites ==
  [][\A g \in Savers, later \in SaveListsOf(mlist) :
       (FileHolds(disk, later) /\ FileHolds(disk', sv[g].infos) /\ sv[g].pc = "rename")
         => ~EarlierSnapshot(sv[g].infos, later)]_vars

\* all saves have returned, each wrote its file, and the sessions file does
\* not hold the manager's list
StaleFileAtRest ==
  /\ SavesReturned
  /\ disk[StoreTmp] = Absent
  /\ \E a \in SaveListsOf(mlist) : FileHolds(disk, a) /\ EarlierSnapshot(a, mlist)

\* ------------------------------------------------------------------ C39
\* every Resize call has returned
ResizesReturned == \A z \in Resizers : rz[z].pc = "idle"

\* the sizes of the mux pane resizes that succeeded, in order
RECURSIVE PaneSizes(_)
PaneSizes(sentLog) ==
  IF sentLog = <<>> THEN <<>>
  ELSE LET rest == PaneSizes(SubSeq(sentLog, 1, Len(sentLog) - 1))
           last == sentLog[Len(sentLog)]
       IN IF last.ok THEN Append(rest, last.dims) ELSE rest

\* C39: on a mux-backed session, once all concurrent Resize calls have
\* returned, (lastCols, lastRows) is the size of the last mux pane resize
\* that succeeded, so that only a Resize to the pane's actual size is skipped.
C39_DedupStateIsPaneSize ==
  (rzName # "" /\ ResizesReturned /\ PaneSizes(rzSent) # <<>>)
    => lastSize = PaneSizes(rzSent)[Len(PaneSizes(rzSent))]

\* ------------------------------------------------------------------ C40
\* Restart call r returns an error in this step
RestartFails(r) == rc[r].pc # "done" /\ rc'[r].pc = "done" /\ rc'[r].how # "ok"

\* Restart call r takes the restarting flag in this step
RestartTakesFlag(r) == rc[r].pc = "idle" /\ rc'[r].pc = "launch"

\* another Restart call in progress holds the restarting flag of id
OwnedByAnother(r, id) ==
  \E o \in DOMAIN rc \ {r} : rc'[o].id = id /\ rc'[o].pc \in {"launch", "install"}

\* the step leaves status, exit code, last output, args and the done channel
\* of id as they were
RestartKeepsRecord(id) ==
  /\ sessions'[id].Status = sessions[id].Status
  /\ sessions'[id].ExitCode = sessions[id].ExitCode
  /\ sessions'[id].lastOutput = sessions[id].lastOutput
  /\ sessions'[id].Args = sessions[id].Args
  /\ sessions'[id].done = sessions[id].done
  /\ doneCloses'[id] = doneCloses[id]

\* C40: a Restart that returns an error leaves restarting false, unless
\* another Restart in progress owns the flag, and no step of it changes the
\* status, the exit code, the last output, the args or the done channel of
\* the record, so the failed call does not make a later Restart be rejected.
C40_FailedRestartKeepsRecord ==
  [][\A r \in DOMAIN rc :
       /\ RestartTakesFlag(r) => RestartKeepsRecord(rc'[r].id)
       /\ RestartFails(r) =>
            /\ RestartKeepsRecord(rc'[r].id)
            /\ sessions'[rc'[r].id].restarting => OwnedByAnother(r, rc'[r].id)
            /\ rc'[r].how = "error" => ~RestartRejected(sessions'[rc'[r].id])]_vars

\* a Restart of an exited session has failed after it took the flag: the
\* record is exited with its exit code and its done channel closed, and the
\* flag is clear
C40_Witness ==
  \E r \in DOMAIN rc :
    /\ rc[r].pc = "done" /\ rc[r].how = "error"
    /\ sessions[rc[r].id].Status = StatusExited
    /\ sessions[rc[r].id].ExitCode # <<>>
    /\ doneCloses[rc[r].id][sessions[rc[r].id].done] # <<>>
    /\ ~sessions[rc[r].id].restarting
====
